---- MODULE Spec2Model ----
(***************************************************************************)
(* The asynchronous task executor of rocket-agentx                         *)
(* (src/src/services/executor.rs): submit, the lazily spawned worker pool  *)
(* behind the process-wide semaphore, the Redis task store and the pending *)
(* queue.  Every await on Redis or on the model is a step of its own; a    *)
(* Redis command either takes effect or fails without effect.              *)
(***************************************************************************)
EXTENDS Integers, Sequences, FiniteSets, TLC

\* ------------------------------------------------------------------ bounds

\* Number of tasks the clients create (each /task/create call makes one).
MaxTasks == 3

\* ExecutorConfig.num_workers: the capacity of SEMAPHORE.
NumWorkers == 2

\* Redis commands that fail, over the whole run.
MaxFailures == 1

\* Records that reach their TTL, over the whole run.
MaxExpiries == 1

\* Largest timeout (seconds) a result request carries; the clock of a result
\* call is not followed beyond it.
MaxTimeout == 2

\* Number of tasks created in the runs that follow a result or query request.
MaxPolled == 2

\* Longest list of image or video urls in a message.
MaxMedia == 1

\* Longest list of context messages in a message.
MaxContext == 1

\* Largest content length of a downloaded object, in bytes.
MaxLength == 4

\* GET_OBJECT_RANGE_SIZE scaled down: bytes per range request of a download.
RangeSize == 2

\* Largest number of parts the body of a multipart upload is split into.
MaxParts == 4

\* MULTIPART_UPLOAD_PART_SIZE and MULTIPART_UPLOAD_THRESHOLD, in bytes, scaled
\* down (4 MiB and 16 MiB in the source).
PartSize == 2
Threshold == 3

\* Largest chunk the body reader hands over at once.
MaxChunk == 4

\* Longest model stream, in chunks.
MaxStream == 3

\* Requests that take the same service type as a guard.
MaxCallers == 3

\* Task ids.  Task::create draws a fresh uuid per task; they are numbered in
\* the order the create requests start.  The worker a submit spawns is named
\* by the id of the task that submit carried.
TaskIds == 1..MaxTasks

\* The ids of the tasks in the runs with a result or query request.
PolledIds == 1..MaxPolled

\* ------------------------------------------------------------ Option, JSON

None == [some |-> FALSE]

Some(x) == [some |-> TRUE, v |-> x]

\* JSON values: null, a string, an object.
JNull == [tag |-> "null"]

JStr(s) == [tag |-> "str", s |-> s]

JObj(o) == [tag |-> "obj", o |-> o]

Member(k, v) == [k |-> k, v |-> v]

\* Status, serialized lowercase (serde rename_all).
Pending == "pending"

Running == "running"

Finished == "finished"

Failed == "failed"

Statuses == {Pending, Running, Finished, Failed}

\* ------------------------------------------------------------------- Task

\* Task::create: a Pending task with no completion, err_msg or finish_time.
TaskCreate(id) ==
    [id |-> id, status |-> Pending, model |-> None, message |-> "message",
     completion |-> None, err_msg |-> None, create_time |-> "create_time",
     finish_time |-> None]

\* serde Serialize of an Option<String>-like field.
SerOpt(o) == IF o.some THEN JStr(o.v) ELSE JNull

\* serde Serialize of Option<Completion>.
SerCompletion(o) == IF o.some THEN JObj(o.v) ELSE JNull

\* serde_json::to_string(&task): the members of the object in field order;
\* err_msg is skipped when it is None, every other field is always written
\* (completion included, as null when it is None).
ToJson(task) ==
    << Member("id", JStr(task.id)),
       Member("status", JStr(task.status)),
       Member("model", SerOpt(task.model)),
       Member("message", JStr(task.message)),
       Member("completion", SerCompletion(task.completion)) >>
    \o (IF task.err_msg.some THEN << Member("err_msg", JStr(task.err_msg.v)) >> ELSE << >>)
    \o << Member("create_time", JStr(task.create_time)),
          Member("finish_time", SerOpt(task.finish_time)) >>

\* Indices of the members of json named k.
Keyed(json, k) == {n \in 1..Len(json) : json[n].k = k}

\* The value of the only member named k (callers check there is exactly one).
Field(json, k) == json[CHOOSE n \in Keyed(json, k) : TRUE].v

\* serde Deserialize of an Option field: absent or null is None.
DeOpt(json, k) ==
    IF Keyed(json, k) = {} THEN None
    ELSE LET v == Field(json, k) IN
         IF v.tag = "null" THEN None
         ELSE IF v.tag = "str" THEN Some(v.s) ELSE Some(v.o)

TaskFields == {"id", "status", "model", "message", "completion", "err_msg",
               "create_time", "finish_time"}

\* serde_json::from_str::<Task>: the derived visitor fails on a field that
\* occurs twice and on a missing non-Option field.
ParseOk(json) ==
    /\ \A k \in TaskFields : Cardinality(Keyed(json, k)) <= 1
    /\ \A k \in {"id", "status", "message", "create_time"} : Keyed(json, k) # {}
    /\ Field(json, "status").s \in Statuses

FromJson(json) ==
    [id |-> Field(json, "id").s, status |-> Field(json, "status").s,
     model |-> DeOpt(json, "model"), message |-> Field(json, "message").s,
     completion |-> DeOpt(json, "completion"), err_msg |-> DeOpt(json, "err_msg"),
     create_time |-> Field(json, "create_time").s,
     finish_time |-> DeOpt(json, "finish_time")]

\* compress / decompress: zstd of the text.  A stored value is the compressed
\* frame around the JSON text.  decompress also rewrites every line break of
\* the text as \n; the texts here hold none, so it returns the text as stored.
Compress(json) == [zstd |-> json]

Decompress(value) == value.zstd

\* The key does not exist in Redis.
Nil == [zstd |-> << >>]

\* A worker's task slot before it has loaded a task.
NoTask == TaskCreate(0)

\* Executor::get on the stored value: Ok(None) when the key is absent, Err
\* when the text does not parse as a Task, Ok(Some(task)) otherwise.
Get(value) ==
    IF value = Nil THEN [kind |-> "none", task |-> NoTask]
    ELSE LET json == Decompress(value) IN
         IF ParseOk(json) THEN [kind |-> "task", task |-> FromJson(json)]
         ELSE [kind |-> "err", task |-> NoTask]

\* Executor::set: the value SET under task.id.
SetValue(task) == Compress(ToJson(task))

\* Variant: the status is left as loaded.
RunningTaskSkipped(task) == task

\* execute, first statement: task.status = Status::Running.
RunningTask(task) == [task EXCEPT !.status = Running]

\* execute, Ok arm: status Finished and finish_time set; completion stays None.
FinishedTask(task) ==
    [task EXCEPT !.status = Finished, !.finish_time = Some("finish_time")]

\* Variant: the error text is not kept.
FailedTaskNoMsg(task) == [task EXCEPT !.status = Failed]

\* execute, Err arm: status Failed and err_msg set.
FailedTask(task) ==
    [task EXCEPT !.status = Failed, !.err_msg = Some("model error")]

\* The chunks the model stream yields: reasoning first, then content, the
\* usage on the last chunk.
Chunk(r, c, u) == [reasoning_content |-> r, content |-> c, usage |-> u]

StreamChunks ==
    << Chunk(Some("r1"), None, None), Chunk(None, Some("c1"), None),
       Chunk(None, Some("c2"), Some("usage")) >>

RECURSIVE Concat(_, _)
\* The texts f picks from the chunks, in order.
Concat(chunks, f) ==
    IF chunks = << >> THEN << >>
    ELSE (IF Head(chunks)[f].some THEN << Head(chunks)[f].v >> ELSE << >>)
         \o Concat(Tail(chunks), f)

RECURSIVE LastUsage(_)
LastUsage(chunks) ==
    IF chunks = << >> THEN None
    ELSE IF chunks[Len(chunks)].usage.some THEN chunks[Len(chunks)].usage
    ELSE LastUsage(SubSeq(chunks, 1, Len(chunks) - 1))

\* What the encoder is given, piece by piece: a key with the punctuation
\* around it, a chunk's text verbatim, the usage (its JSON or null).
KeyToken(k) == [tok |-> "key", k |-> k]
TextToken(t) == [tok |-> "text", t |-> t]
UsageToken(u) == [tok |-> "usage", u |-> u]

\* while let Some(chunk) = stream.next().await: the reasoning text of the
\* chunk is written, then its content, preceded by ","content":" if it is the
\* first content of the stream (reasoning is the loop's flag).
RECURSIVE EncoderLoop(_, _)
EncoderLoop(chunks, reasoning) ==
    IF chunks = << >> THEN << >>
    ELSE LET c == Head(chunks)
         IN (IF c.reasoning_content.some THEN << TextToken(c.reasoning_content.v) >> ELSE << >>)
            \o (IF c.content.some
                THEN (IF reasoning THEN << KeyToken("content") >> ELSE << >>)
                     \o << TextToken(c.content.v) >>
                ELSE << >>)
            \o EncoderLoop(Tail(chunks), reasoning /\ ~c.content.some)

\* What execute writes after ,"completion": {"reasoning_content":" , the
\* loop's output, ","usage": and the last usage or null, and the closing }}.
EncoderText(chunks) ==
    << KeyToken("reasoning_content") >> \o EncoderLoop(chunks, TRUE)
    \o << KeyToken("usage"), UsageToken(LastUsage(chunks)) >>

\* The texts at the front of tokens: the string that runs up to the next key.
RECURSIVE Run(_)
Run(tokens) ==
    IF tokens = << >> \/ Head(tokens).tok # "text" THEN << >>
    ELSE << Head(tokens).t >> \o Run(Tail(tokens))

\* The members a JSON reader finds in the written text: each key with the
\* string, or the usage, that follows it.
RECURSIVE ReadMembers(_)
ReadMembers(tokens) ==
    IF tokens = << >> THEN << >>
    ELSE LET t == Head(tokens)
         IN (IF t.tok # "key" THEN << >>
             ELSE IF t.k = "usage" THEN << Member(t.k, SerOpt(tokens[2].u)) >>
             ELSE << Member(t.k, JStr(Run(Tail(tokens)))) >>)
            \o ReadMembers(Tail(tokens))

\* The object the streaming loop writes after ,"completion": the reasoning
\* text, the content key once a content chunk came, the usage or null.
StreamCompletion(chunks) == ReadMembers(EncoderText(chunks))

\* execute, Ok arm: the text of the serialized task up to its last "}", then
\* ,"completion":{...}} : the members of the task followed by one more member
\* named completion.
StreamJson(task, chunks) ==
    ToJson(task) \o << Member("completion", JObj(StreamCompletion(chunks))) >>

\* The bytes handed to set_raw.
StreamValue(task, chunks) == Compress(StreamJson(task, chunks))

\* ---------------------------------------------------------------- semaphore

\* Variant: every submit makes a new semaphore.
GetOrInitAgain(s) == [init |-> TRUE, permits |-> NumWorkers]

\* SEMAPHORE.get_or_init(|| Semaphore::new(num_workers)).
GetOrInit(s) == IF s.init THEN s ELSE [init |-> TRUE, permits |-> NumWorkers]

\* Variant: a worker is spawned on every submit.
CanAcquireAlways(s) == TRUE

\* Semaphore::try_acquire succeeds when a permit is available.
CanAcquire(s) == s.permits > 0

\* Variant: the permit is not taken.
AcquireNoTake(s) == s

\* A successful try_acquire takes one permit.
Acquire(s) == [s EXCEPT !.permits = @ - 1]

\* drop(permit).
Release(s) == [s EXCEPT !.permits = @ + 1]

\* ------------------------------------------------------------ pending queue

\* Variant: the id is pushed twice.
LPushTwice(q, id) == << id, id >> \o q

\* LPUSH PENDING_QUEUE id: the list with id at its head.
LPush(q, id) == << id >> \o q

\* Variant: BLPOP, the element at the head.
LPopHead(q) == [id |-> q[1], rest |-> Tail(q)]

\* Variant: the element at the tail is read and left in the list.
RPopPeek(q) == [id |-> q[Len(q)], rest |-> q]

\* BRPOP PENDING_QUEUE: the element at the tail, and the list without it.
RPop(q) == [id |-> q[Len(q)], rest |-> SubSeq(q, 1, Len(q) - 1)]

\* -------------------------------------------------------------------- state

VARIABLES
    store,      \* Redis keys: task id -> stored value, Nil when absent
    queue,      \* the Redis list PENDING_QUEUE, head first
    sem,        \* SEMAPHORE: whether initialised, and its available permits
    spc,        \* per task: where its submit call stands
    worker,     \* per spawning task: the worker coroutine's position and locals
    hist,       \* per task: what has happened to it (observation only)
    faults,     \* Redis failures and TTL expiries so far
    pushed,     \* ids in the order their LPUSH took effect (observation only)
    popped,     \* ids in the order BRPOP delivered them (observation only)
    poll,       \* the result / query request in progress and what it returned
    chat,       \* the message a chat route or a worker dispatches, and the model chosen
    dl,         \* one get_object download: the stream's position and what it yielded
    up,         \* one upload: the body reader, the part tasks, the requests
    key,        \* one build_key call of get_object and the request that follows it
    sig,        \* one request signed twice, with two iteration orders of its maps
    svc,        \* the SERVICES slot of one service type and the requests injecting it
    enc         \* one model stream, the record execute stores for it, and its load

\* The object key, the signature and the service registry.
rest == << key, sig, svc, enc >>

\* What the executor's submit and worker steps never touch.
others == << poll, chat, dl, up, rest >>

\* What the steps of a result or query request never touch, the executor aside.
besidePoll == << chat, dl, up, rest >>

\* The executor and the requests for its tasks.
tasks == << store, queue, sem, spc, worker, hist, faults, pushed, popped, poll >>

\* What the dispatch of a message never touches.
besideChat == << tasks, dl, up, rest >>

\* What a download never touches.
besideDownload == << tasks, chat, up, rest >>

\* What an upload never touches.
besideUpload == << tasks, chat, dl, rest >>

\* What build_key never touches.
besideKey == << tasks, chat, dl, up, sig, svc, enc >>

\* What sign_v4 never touches.
besideSign == << tasks, chat, dl, up, key, svc, enc >>

\* What the service registry never touches.
besideServices == << tasks, chat, dl, up, key, sig, enc >>

\* What the encoding of a model stream never touches.
besideEncoder == << tasks, chat, dl, up, key, sig, svc >>

vars == << store, queue, sem, spc, worker, hist, faults, pushed, popped, others >>

NoWorker == [pc |-> "none", id |-> 0, task |-> NoTask, value |-> Nil]

\* A message: entities/message.rs Message without its role.
Msg(text, images, videos, context) ==
    [text |-> text, images |-> images, videos |-> videos, context |-> context]

\* No message dispatched yet.
NoChat == [message |-> Msg(None, None, None, None), route |-> "none", model |-> "none"]

\* No download yet.
NoDownload ==
    [pc |-> "idle", length |-> 0, start |-> 0, retry |-> 0, next |-> 0,
     out |-> << >>, requests |-> << >>, sleep |-> 0, heads |-> 0]

\* A part upload task that was not spawned.
NoPart == [pc |-> "none", retry |-> 0, permit |-> FALSE, body |-> << >>, sleep |-> 0]

\* No upload yet.
NoUpload ==
    [pc |-> "idle", spawned |-> 0, permits |-> 0, part |-> [n \in 1..MaxParts |-> NoPart],
     finished |-> << >>, parts |-> << >>, request |-> None, cause |-> "none",
     length |-> 0, taken |-> 0, read |-> 0, sent |-> {}, object |-> None,
     count |-> [put |-> 0, initiate |-> 0, complete |-> 0]]

\* No request yet.
NoPoll ==
    [pc |-> "idle", op |-> "none", id |-> 0, timeout |-> 0, elapsed |-> 0,
     ret |-> [kind |-> "none", status |-> "none"]]

NoHist ==
    [pops |-> 0, calls |-> 0, writes |-> << >>, expired |-> FALSE,
     result |-> "none", persisted |-> "none"]

ExecutorInit ==
    /\ store = [i \in TaskIds |-> Nil]
    /\ queue = << >>
    /\ sem = [init |-> FALSE, permits |-> 0]
    /\ spc = [i \in TaskIds |-> "idle"]
    /\ worker = [i \in TaskIds |-> NoWorker]
    /\ hist = [i \in TaskIds |-> NoHist]
    /\ faults = [failures |-> 0, expiries |-> 0]
    /\ pushed = << >>
    /\ popped = << >>

\* No name was given to get_object yet.
NoKey == [pc |-> "idle", name |-> << >>, key |-> << >>, requests |-> 0]

\* Nothing was signed yet.
NoSign ==
    [pc |-> "idle", method |-> "none", query |-> << >>, headers |-> << >>,
     additional |-> << >>, calls |-> << >>, sent |-> << >>]

\* The process has just started: SERVICES is empty and no request has come.
NoServices ==
    [slot |-> None, built |-> 0,
     caller |-> [c \in 1..MaxCallers |-> [pc |-> "idle", made |-> 0, got |-> 0]]]

\* Nothing has happened to the object store's client, the signer and the
\* registry.
\* No model stream was encoded yet.
NoStream == [pc |-> "idle", chunks |-> << >>, value |-> Nil, loaded |-> "none"]

RestInit ==
    /\ key = NoKey
    /\ sig = NoSign
    /\ svc = NoServices
    /\ enc = NoStream

Init ==
    /\ ExecutorInit
    /\ poll = NoPoll
    /\ chat = NoChat
    /\ dl = NoDownload
    /\ up = NoUpload
    /\ RestInit

\* The status member of a stored value.
StoredStatus(value) == Field(Decompress(value), "status").s

\* The record of a SET of value under id: the status it stores.
Written(h, id, value) ==
    [h EXCEPT ![id].writes = Append(@, StoredStatus(value))]

\* One more Redis command fails.
Fails ==
    /\ faults.failures < MaxFailures
    /\ faults' = [faults EXCEPT !.failures = @ + 1]

\* SET id value EX expiration.
SetEx(st, id, value) == [st EXCEPT ![id] = value]

\* ------------------------------------------------------------------- submit

\* routes/task.rs create: Task::create, then submit's self.set(task) succeeds.
SubmitSet(i) ==
    /\ spc[i] = "idle"
    /\ \A j \in TaskIds : j < i => spc[j] # "idle"
    /\ store' = SetEx(store, i, SetValue(TaskCreate(i)))
    /\ hist' = Written(hist, i, SetValue(TaskCreate(i)))
    /\ spc' = [spc EXCEPT ![i] = "lpush"]
    /\ UNCHANGED << others, faults, queue, sem, worker, pushed, popped >>

\* self.set(task) fails: submit returns the error.
SubmitSetFail(i) ==
    /\ spc[i] = "idle"
    /\ \A j \in TaskIds : j < i => spc[j] # "idle"
    /\ spc' = [spc EXCEPT ![i] = "err"]
    /\ Fails
    /\ UNCHANGED << others, store, queue, sem, worker, hist, pushed, popped >>

\* conn.lpush(PENDING_QUEUE, &task.id) succeeds.
SubmitLpush(i) ==
    /\ spc[i] = "lpush"
    /\ queue' = LPush(queue, i)
    /\ pushed' = Append(pushed, i)
    /\ spc' = [spc EXCEPT ![i] = "acquire"]
    /\ UNCHANGED << others, faults, store, sem, worker, hist, popped >>

\* A submit that goes on after a failed push.
SubmitLpushFailIgnored(i) ==
    /\ spc[i] = "lpush"
    /\ spc' = [spc EXCEPT ![i] = "acquire"]
    /\ Fails
    /\ UNCHANGED << others, store, queue, sem, worker, hist, pushed, popped >>

\* conn.lpush fails: submit returns the error.
SubmitLpushFail(i) ==
    /\ spc[i] = "lpush"
    /\ spc' = [spc EXCEPT ![i] = "err"]
    /\ Fails
    /\ UNCHANGED << others, store, queue, sem, worker, hist, pushed, popped >>

\* get_or_init, try_acquire succeeds: the worker is spawned holding the
\* permit, and submit returns Ok.
SubmitSpawn(i) ==
    /\ spc[i] = "acquire"
    /\ CanAcquire(GetOrInit(sem))
    /\ sem' = Acquire(GetOrInit(sem))
    /\ worker' = [worker EXCEPT ![i].pc = "consume"]
    /\ spc' = [spc EXCEPT ![i] = "ok"]
    /\ UNCHANGED << others, faults, store, queue, hist, pushed, popped >>

\* get_or_init, try_acquire fails: no worker, and submit returns Ok.
SubmitNoSpawn(i) ==
    /\ spc[i] = "acquire"
    /\ ~CanAcquire(GetOrInit(sem))
    /\ sem' = GetOrInit(sem)
    /\ spc' = [spc EXCEPT ![i] = "ok"]
    /\ UNCHANGED << others, faults, store, queue, worker, hist, pushed, popped >>

\* ------------------------------------------------------------------- worker

\* consume: BRPOP delivers the id at the tail of the list.
ConsumePop(w) ==
    /\ worker[w].pc = "consume"
    /\ queue # << >>
    /\ LET r == RPop(queue) IN
        /\ queue' = r.rest
        /\ popped' = Append(popped, r.id)
        /\ worker' = [worker EXCEPT ![w].pc = "get", ![w].id = r.id]
        /\ hist' = [hist EXCEPT ![r.id].pops = @ + 1]
    /\ UNCHANGED << others, faults, store, sem, spc, pushed >>

\* consume: BRPOP times out on the empty list; consume returns Ok(None) and
\* the loop breaks.
ConsumeTimeout(w) ==
    /\ worker[w].pc = "consume"
    /\ queue = << >>
    /\ worker' = [worker EXCEPT ![w].pc = "break"]
    /\ UNCHANGED << others, faults, store, queue, sem, spc, hist, pushed, popped >>

\* A consume that makes up a task for an id without a record.
ConsumeGetCreates(w) ==
    /\ worker[w].pc = "get"
    /\ LET g == Get(store[worker[w].id]) IN
        worker' = [worker EXCEPT
                     ![w] = [@ EXCEPT !.pc = "execute",
                                      !.task = IF g.kind = "task" THEN g.task
                                               ELSE TaskCreate(worker[w].id)]]
    /\ UNCHANGED << others, faults, store, queue, sem, spc, hist, pushed, popped >>

\* consume: self.get of the popped id.  A task goes on to execute; a missing
\* record or one that does not parse is an error, logged, and the loop goes
\* on to the next pop.
ConsumeGet(w) ==
    /\ worker[w].pc = "get"
    /\ LET g == Get(store[worker[w].id]) IN
        worker' = [worker EXCEPT
                     ![w] = IF g.kind = "task"
                            THEN [@ EXCEPT !.pc = "execute", !.task = g.task]
                            ELSE [NoWorker EXCEPT !.pc = "consume"]]
    /\ UNCHANGED << others, faults, store, queue, sem, spc, hist, pushed, popped >>

\* A loop that a failed pop ends.
ConsumePopFailBreaks(w) ==
    /\ worker[w].pc = "consume"
    /\ worker' = [worker EXCEPT ![w].pc = "break"]
    /\ Fails
    /\ UNCHANGED << others, store, queue, sem, spc, hist, pushed, popped >>

\* consume: BRPOP fails in Redis; consume returns the error, which the loop
\* logs before it calls consume again.
ConsumePopFail(w) ==
    /\ worker[w].pc = "consume"
    /\ Fails
    /\ UNCHANGED << others, store, queue, sem, spc, worker, hist, pushed, popped >>

\* consume: the GET fails in Redis; logged, next pop.
ConsumeGetFail(w) ==
    /\ worker[w].pc = "get"
    /\ worker' = [worker EXCEPT ![w] = [NoWorker EXCEPT !.pc = "consume"]]
    /\ Fails
    /\ UNCHANGED << others, store, queue, sem, spc, hist, pushed, popped >>

\* execute: status Running is stored, then the model is called.
ExecuteSetRunning(w) ==
    /\ worker[w].pc = "execute"
    /\ LET task == RunningTask(worker[w].task) IN
        /\ store' = SetEx(store, task.id, SetValue(task))
        /\ hist' = Written(hist, task.id, SetValue(task))
        /\ worker' = [worker EXCEPT ![w].pc = "model", ![w].task = task]
    /\ UNCHANGED << others, faults, queue, sem, spc, pushed, popped >>

\* execute: the SET of the Running record fails; execute returns the error.
ExecuteSetRunningFail(w) ==
    /\ worker[w].pc = "execute"
    /\ worker' = [worker EXCEPT ![w] = [NoWorker EXCEPT !.pc = "consume"]]
    /\ Fails
    /\ UNCHANGED << others, store, queue, sem, spc, hist, pushed, popped >>

\* execute: model.stream returns Ok; the whole stream is encoded into the
\* value to store.
ModelOk(w) ==
    /\ worker[w].pc = "model"
    /\ LET task == FinishedTask(worker[w].task) IN
        /\ worker' = [worker EXCEPT ![w].pc = "persist", ![w].task = task,
                                    ![w].value = StreamValue(task, StreamChunks)]
        /\ hist' = [hist EXCEPT ![task.id].calls = @ + 1, ![task.id].result = "ok"]
    /\ UNCHANGED << others, faults, store, queue, sem, spc, pushed, popped >>

\* execute: model.stream returns Err.
ModelErr(w) ==
    /\ worker[w].pc = "model"
    /\ LET task == FailedTask(worker[w].task) IN
        /\ worker' = [worker EXCEPT ![w].pc = "persist", ![w].task = task,
                                    ![w].value = SetValue(task)]
        /\ hist' = [hist EXCEPT ![task.id].calls = @ + 1, ![task.id].result = "err"]
    /\ UNCHANGED << others, faults, store, queue, sem, spc, pushed, popped >>

\* execute: set_raw (Ok arm) or set (Err arm) stores the final record.
Persist(w) ==
    /\ worker[w].pc = "persist"
    /\ LET id == worker[w].task.id IN
        /\ store' = SetEx(store, id, worker[w].value)
        /\ hist' = [Written(hist, id, worker[w].value) EXCEPT ![id].persisted = "ok"]
    /\ worker' = [worker EXCEPT ![w] = [NoWorker EXCEPT !.pc = "consume"]]
    /\ UNCHANGED << others, faults, queue, sem, spc, pushed, popped >>

\* execute: the SET of the final record fails; execute returns the error and
\* the stored record stays as it was.
PersistFail(w) ==
    /\ worker[w].pc = "persist"
    /\ hist' = [hist EXCEPT ![worker[w].task.id].persisted = "fail"]
    /\ worker' = [worker EXCEPT ![w] = [NoWorker EXCEPT !.pc = "consume"]]
    /\ Fails
    /\ UNCHANGED << others, store, queue, sem, spc, pushed, popped >>

\* The spawned coroutine ends: drop(permit).
Exit(w) ==
    /\ worker[w].pc = "break"
    /\ sem' = Release(sem)
    /\ worker' = [worker EXCEPT ![w].pc = "none"]
    /\ UNCHANGED << others, faults, store, queue, spc, hist, pushed, popped >>

\* Redis deletes a record `expiration` seconds after its last write.
Expire(i) ==
    /\ store[i] # Nil
    /\ faults.expiries < MaxExpiries
    /\ faults' = [faults EXCEPT !.expiries = @ + 1]
    /\ store' = [store EXCEPT ![i] = Nil]
    /\ hist' = [hist EXCEPT ![i].expired = TRUE]
    /\ UNCHANGED << others, queue, sem, spc, worker, pushed, popped >>

\* ------------------------------------------------------------- result, get

\* routes/task.rs result: the timeout query parameter, 0 when it is absent.
TimeoutOr(timeout) == IF timeout.some THEN timeout.v ELSE 0

\* What a request hands back: the task (its status is all that is observed);
\* "missing" when get found no record, which result turns into the error
\* "Task '<id>' not existed" and query into an empty answer; or get's error.
Returned(r) ==
    CASE r.kind = "task" -> [kind |-> "task", status |-> r.task.status]
      [] r.kind = "none" -> [kind |-> "missing", status |-> "none"]
      [] OTHER -> [kind |-> "err", status |-> "none"]

\* result's second test with the timeout 0 taken for an expired deadline.
TimedOutAtZero(timeout, elapsed) == elapsed >= timeout

\* result's second test: timeout > 0 && now.elapsed().as_secs() >= timeout.
TimedOut(timeout, elapsed) == timeout > 0 /\ elapsed >= timeout

\* A poll that skips the test of the record's presence.
ResultStepBlind(r, timeout, elapsed) ==
    IF r.kind = "task" /\ r.task.status \in {Finished, Failed} THEN "return"
    ELSE IF TimedOut(timeout, elapsed) THEN "return"
    ELSE "tick"

\* One round of result's loop on the outcome r of self.get: return the task
\* when it is terminal or the deadline has passed, wait for the next tick
\* otherwise; no record and a failed get end the call with an error.
ResultStep(r, timeout, elapsed) ==
    IF r.kind # "task" THEN "return"
    ELSE IF r.task.status \in {Finished, Failed} THEN "return"
    ELSE IF TimedOut(timeout, elapsed) THEN "return"
    ELSE "tick"

\* GET key on the store: nil for a key that was never set.
Lookup(st, id) == IF id \in DOMAIN st THEN st[id] ELSE Nil

\* A client knows the id of a task from the response of its create request;
\* any other id it sends names no task.
Known(i) == i \in TaskIds => spc[i] = "ok"

\* GET /task/result?id=&timeout=: executor.result starts its clock and its
\* 1 s interval, whose first tick completes at once.
ResultCall(i, timeout) ==
    /\ poll.pc = "idle"
    /\ Known(i)
    /\ poll' = [poll EXCEPT !.pc = "get", !.op = "result", !.id = i,
                            !.timeout = TimeoutOr(timeout)]
    /\ UNCHANGED << besidePoll, store, queue, sem, spc, worker, hist, faults, pushed, popped >>

\* One round of result's loop: self.get(task_id) answers.
ResultPoll ==
    /\ poll.pc = "get"
    /\ LET r == Get(Lookup(store, poll.id))
       IN poll' = IF ResultStep(r, poll.timeout, poll.elapsed) = "tick"
                  THEN [poll EXCEPT !.pc = "tick"]
                  ELSE [poll EXCEPT !.pc = "done", !.ret = Returned(r)]
    /\ UNCHANGED << besidePoll, store, queue, sem, spc, worker, hist, faults, pushed, popped >>

\* self.get's GET command fails: result returns the error.
ResultPollFail ==
    /\ poll.pc = "get"
    /\ poll' = [poll EXCEPT !.pc = "done", !.ret = [kind |-> "err", status |-> "none"]]
    /\ Fails
    /\ UNCHANGED << besidePoll, store, queue, sem, spc, worker, hist, pushed, popped >>

\* interval.tick().await: one more second has passed.
ResultTick ==
    /\ poll.pc = "tick"
    /\ poll' = [poll EXCEPT !.pc = "get",
                            !.elapsed = IF @ < MaxTimeout THEN @ + 1 ELSE @]
    /\ UNCHANGED << besidePoll, store, queue, sem, spc, worker, hist, faults, pushed, popped >>

\* GET /task/query?id=: executor.get answers.
Query(i) ==
    /\ poll.pc = "idle"
    /\ Known(i)
    /\ poll' = [poll EXCEPT !.pc = "done", !.op = "query", !.id = i,
                            !.ret = Returned(Get(Lookup(store, i)))]
    /\ UNCHANGED << besidePoll, store, queue, sem, spc, worker, hist, faults, pushed, popped >>

\* ----------------------------------------------------------------- dispatch

\* The lists over S of length at most n.
Lists(S, n) == UNION {[1..k -> S] : k \in 0..n}

\* An images or videos field: absent, or a list of urls, possibly empty.
Media == {None} \cup {Some(l) : l \in Lists({"url"}, MaxMedia)}

\* Messages without context.
Leaves == {Msg(t, i, v, None) : t \in {None, Some("text")}, i \in Media, v \in Media}

\* Messages whose context messages carry no context of their own.
Messages ==
    {Msg(l.text, l.images, l.videos, c) :
        l \in Leaves, c \in {None} \cup {Some(k) : k \in Lists(Leaves, MaxContext)}}

\* A test that looks at the images field alone.
OnlyTextNoImages(message) == message.images = None

\* Message::only_text.
OnlyText(message) == message.images = None /\ message.videos = None

\* Prompt::is_media on the prompt of a task: whether the submitted message
\* carries media.
IsMedia(message) == message.images # None \/ message.videos # None

\* Model::name of the two model services.
Qwen3 == "qwen3"

Qwen3VL == "qwen3-vl"

\* POST /chat/completion: the model that completes the message.
Completion ==
    /\ chat.route = "none"
    /\ chat' = [chat EXCEPT !.route = "completion",
                            !.model = IF OnlyText(chat.message) THEN Qwen3 ELSE Qwen3VL]
    /\ UNCHANGED besideChat

\* POST /chat/stream: the model that streams the answer.
Stream ==
    /\ chat.route = "none"
    /\ chat' = [chat EXCEPT !.route = "stream",
                            !.model = IF OnlyText(chat.message) THEN Qwen3 ELSE Qwen3VL]
    /\ UNCHANGED besideChat

\* Executor::execute: the model a worker streams the task's prompt to.
ExecuteDispatch ==
    /\ chat.route = "none"
    /\ chat' = [chat EXCEPT !.route = "task",
                            !.model = IF IsMedia(chat.message) THEN Qwen3VL ELSE Qwen3]
    /\ UNCHANGED besideChat

\* Any message may be sent.
DispatchInit ==
    /\ ExecutorInit
    /\ poll = NoPoll
    /\ chat \in {[NoChat EXCEPT !.message = m] : m \in Messages}
    /\ dl = NoDownload
    /\ up = NoUpload
    /\ RestInit

DispatchNext == Completion \/ Stream \/ ExecuteDispatch

DispatchSpec == DispatchInit /\ [][DispatchNext]_vars

\* ----------------------------------------------------------------- download

\* The retry loops of get_object and upload_part: for retry in 0..=3.
MaxRetry == 3

\* A back-off of one second whatever the retry.
SleepSecondsFlat(retry) == 1

\* Duration::from_secs(retry + 1): the seconds slept after the failed attempt
\* numbered retry.
SleepSeconds(retry) == retry + 1

\* The smaller of two numbers.
Min(a, b) == IF a <= b THEN a ELSE b

\* A range that always spans the whole range size.
RangeEndUnclamped(start, length) == start + RangeSize - 1

\* The last byte of the range that begins at start.
RangeEnd(start, length) == Min(start + RangeSize - 1, length - 1)

\* The first byte a retry of the range asks for: the range's start, whatever
\* was yielded of it already.
RetryFrom(start, next) == start

\* A loop that tries again after every failure.
AfterFailureAgain(d) == [d EXCEPT !.pc = "sleep"]

\* After a failed attempt: back off and try again while retry < 3, else
\* break 'outer, which ends the stream.
AfterFailure(d) ==
    IF d.retry < MaxRetry THEN [d EXCEPT !.pc = "sleep", !.sleep = SleepSeconds(d.retry)]
    ELSE [d EXCEPT !.pc = "end"]

\* get_object: head_object answers with the content length; the stream starts
\* at the first range (there is none for an empty object).
GetObject(length) ==
    /\ dl.pc = "idle"
    /\ dl' = [dl EXCEPT !.length = length, !.heads = @ + 1,
                        !.pc = IF length = 0 THEN "end" ELSE "request"]
    /\ UNCHANGED besideDownload

\* get_object: build_key fails, or head_object does after its request was
\* sent (sent); get_object returns the error and there is no stream.
GetObjectFail(sent) ==
    /\ dl.pc = "idle"
    /\ dl' = [dl EXCEPT !.pc = "err", !.heads = IF sent THEN @ + 1 ELSE @]
    /\ UNCHANGED besideDownload

\* get_object_range(key, (start, end)) answers with a byte stream.
RangeOk ==
    /\ dl.pc = "request"
    /\ dl' = [dl EXCEPT !.pc = "read",
                        !.next = RetryFrom(dl.start, dl.next),
                        !.requests = Append(@, << dl.start, RangeEnd(dl.start, dl.length) >>)]
    /\ UNCHANGED besideDownload

\* get_object_range fails (no connection, or a status that is no success).
RangeFail ==
    /\ dl.pc = "request"
    /\ dl' = [AfterFailure(dl) EXCEPT
                 !.requests = Append(@, << dl.start, RangeEnd(dl.start, dl.length) >>)]
    /\ UNCHANGED besideDownload

\* Some(Ok(chunk)) => yield chunk: the next byte of the range.
ChunkOk ==
    /\ dl.pc = "read"
    /\ dl.next <= RangeEnd(dl.start, dl.length)
    /\ dl' = [dl EXCEPT !.out = Append(@, dl.next), !.next = @ + 1]
    /\ UNCHANGED besideDownload

\* Some(Err(_)) => break: the response stream fails.
ChunkErr ==
    /\ dl.pc = "read"
    /\ dl' = AfterFailure(dl)
    /\ UNCHANGED besideDownload

\* None => continue 'outer: the range is exhausted, on to the next one with a
\* fresh retry counter; the stream ends after the last range.
RangeDone ==
    /\ dl.pc = "read"
    /\ dl.next > RangeEnd(dl.start, dl.length)
    /\ dl' = [dl EXCEPT !.start = @ + RangeSize,
                        !.retry = 0,
                        !.pc = IF dl.start + RangeSize < dl.length THEN "request" ELSE "end"]
    /\ UNCHANGED besideDownload

\* sleep(retry + 1 seconds), then the next attempt of the same range.
Backoff ==
    /\ dl.pc = "sleep"
    /\ dl' = [dl EXCEPT !.pc = "request", !.retry = @ + 1, !.sleep = 0]
    /\ UNCHANGED besideDownload

DownloadNext ==
    \/ \E length \in 0..MaxLength : GetObject(length)
    \/ \E sent \in BOOLEAN : GetObjectFail(sent)
    \/ RangeOk
    \/ RangeFail
    \/ ChunkOk
    \/ ChunkErr
    \/ RangeDone
    \/ Backoff

DownloadSpec == Init /\ [][DownloadNext]_vars

\* ------------------------------------------------------------------- upload

\* Semaphore::new(MULTIPART_UPLOAD_WORKERS_NUM).
MULTIPART_UPLOAD_WORKERS_NUM == 3

\* upload_part's result for part n.
MultipartUploadResult(n) == [part_number |-> n, e_tag |-> "etag"]

\* The results that precede (keep = TRUE) or follow the pivot p by part number,
\* in their order in parts; equal part numbers stay behind the pivot.
Side(parts, p, keep) ==
    SelectSeq(parts, LAMBDA x : (x.part_number < p.part_number) = keep)

\* The parts as join_next delivered them.
Unsorted(parts) == parts

\* parts.sort_by_key(|part| part.part_number): a stable sort.
RECURSIVE SortByPartNumber(_)
SortByPartNumber(parts) ==
    IF parts = << >> THEN << >>
    ELSE SortByPartNumber(Side(Tail(parts), Head(parts), TRUE))
            \o << Head(parts) >>
            \o SortByPartNumber(Side(Tail(parts), Head(parts), FALSE))

\* A task that starts uploading without a free permit.
PermitFreeAlways(permits) == TRUE

\* semaphore.acquire() completes only when a permit is free.
PermitFree(permits) == permits > 0

\* Whether a part task holds a permit: from acquire until it returns.
Holds(p) == p.permit

\* A join that takes every result for a success.
JoinedOkAlways(p) == TRUE

\* result??: whether the joined task returned Ok.
JoinedOk(p) == p.pc = "ok"

\* Dropping the JoinSet aborts every part task that has not returned; their
\* permits go back to the semaphore.
Aborted(u) ==
    [u EXCEPT !.part = [n \in 1..MaxParts |->
                           IF u.part[n].pc \in {"wait", "put", "sleep"}
                           THEN [u.part[n] EXCEPT !.pc = "aborted", !.permit = FALSE, !.sleep = 0]
                           ELSE u.part[n]],
              !.permits = @ + Cardinality({n \in 1..MaxParts : Holds(u.part[n])})]

\* The request body: the byte at offset k is named k.  The server hands the
\* handler exactly the Content-Length bytes the request declares, or a read
\* error.
Body(length) == [k \in 1..length |-> k - 1]

\* A slice that loses its last byte.
SliceShort(body, from, to) == SubSeq(body, from + 1, to - 1)

\* The bytes of a body from offset from up to, not including, offset to.
Slice(body, from, to) == SubSeq(body, from + 1, to)

\* PUT_OBJECT_MAX_SIZE, in bytes, scaled down (512 MiB in the source): the
\* body is split into at most MaxParts full parts.
PUT_OBJECT_MAX_SIZE == MaxParts * PartSize

\* Largest Content-Length of an upload: one byte above the read cap.
MaxBody == PUT_OBJECT_MAX_SIZE + 1

\* data.open(limit): the reader ends after limit bytes of the body.
Open(length, limit) == Min(length, limit)

\* The bytes multipart_upload has taken from the body's stream but not yet
\* split off: buffer.len().
Buffered(u) == u.taken - u.read

\* set.spawn(...) for the next part number, with size bytes of the buffer.
Spawned(u, size) ==
    [u EXCEPT !.spawned = @ + 1, !.part[u.spawned + 1].pc = "wait",
              !.part[u.spawned + 1].body = Slice(Body(u.length), u.read, u.read + size),
              !.read = @ + size]

\* The bodies of the parts a CompleteMultipartUpload request lists, in the
\* order of the list: the object OSS assembles.
RECURSIVE Assemble(_, _)
Assemble(u, parts) ==
    IF parts = << >> THEN << >>
    ELSE u.part[Head(parts).part_number].body \o Assemble(u, Tail(parts))

\* A part task returns: its permit is dropped and the JoinSet has its result
\* (an error keeps the number of retries it came after).
Returns(u, n, pc) ==
    [u EXCEPT !.part[n].pc = pc, !.part[n].permit = FALSE, !.permits = @ + 1,
              !.part[n].retry = IF pc = "ok" THEN 0 ELSE @,
              !.finished = Append(@, n)]

\* put_object's branch: one PUT for a declared length up to the threshold.
SinglePutBelow(length) == length < Threshold

SinglePut(length) == length <= Threshold

\* put_object: the name, the key and the headers are built, then the branch
\* on the declared content_length is taken.
PutObject(length) ==
    /\ up.pc = "idle"
    /\ up' = [up EXCEPT !.length = length,
                        !.pc = IF SinglePut(length) THEN "single" ELSE "initiate"]
    /\ UNCHANGED besideUpload

\* meta.extension()?, build_key(&name)? or a header's parse()? fails:
\* put_object returns the error before any request.
PutObjectFail(length) ==
    /\ up.pc = "idle"
    /\ up' = [up EXCEPT !.length = length, !.pc = "err", !.cause = "meta"]
    /\ UNCHANGED besideUpload

\* put_object_by_key: the body is read up to the threshold and sent in one
\* PUT; put_object returns the name if it succeeds (ok), the error if not.
PutObjectByKey(ok) ==
    /\ up.pc = "single"
    /\ up' = [up EXCEPT !.sent = @ \cup {"put"},
                        !.count.put = @ + 1,
                        !.taken = Open(up.length, Threshold),
                        !.read = Open(up.length, Threshold),
                        !.object = IF ok THEN Some(Slice(Body(up.length), 0, Open(up.length, Threshold)))
                                   ELSE @,
                        !.pc = IF ok THEN "ok" ELSE "err",
                        !.cause = IF ok THEN "none" ELSE "put"]
    /\ UNCHANGED besideUpload

\* reader.into_bytes().await? fails: put_object returns the error, no request
\* was sent.
PutObjectByKeyReadFail ==
    /\ up.pc = "single"
    /\ up' = [up EXCEPT !.pc = "err", !.cause = "read"]
    /\ UNCHANGED besideUpload

\* multipart_upload: initiate_multipart_upload answers with the upload id.
Initiate ==
    /\ up.pc = "initiate"
    /\ up' = [up EXCEPT !.pc = "read", !.permits = MULTIPART_UPLOAD_WORKERS_NUM,
                        !.sent = @ \cup {"initiate"}, !.count.initiate = @ + 1]
    /\ UNCHANGED besideUpload

\* An initiate that is sent again after it failed.
InitiateFailAgain ==
    /\ up.pc = "initiate"
    /\ up' = [up EXCEPT !.sent = @ \cup {"initiate"}, !.count.initiate = @ + 1]
    /\ UNCHANGED besideUpload

\* initiate_multipart_upload fails: put_object returns the error.
InitiateFail ==
    /\ up.pc = "initiate"
    /\ up' = [up EXCEPT !.pc = "err", !.cause = "initiate", !.sent = @ \cup {"initiate"},
                        !.count.initiate = @ + 1]
    /\ UNCHANGED besideUpload

\* while buffer.len() >= MULTIPART_UPLOAD_PART_SIZE: split a part off the
\* front of the buffer and spawn its upload.
RECURSIVE Split(_)
Split(u) == IF Buffered(u) >= PartSize THEN Split(Spawned(u, PartSize)) ELSE u

\* stream.next() is a chunk of size bytes: buffer.extend(chunk), then every
\* whole part in the buffer is split off.
ReadChunk(size) ==
    /\ up.pc = "read"
    /\ size <= Open(up.length, PUT_OBJECT_MAX_SIZE) - up.taken
    /\ up' = Split([up EXCEPT !.taken = @ + size])
    /\ UNCHANGED besideUpload

\* A flush of the buffer at the end of the body even when it is empty.
ReadEndAlways ==
    /\ up.pc = "read"
    /\ up.taken = Open(up.length, PUT_OBJECT_MAX_SIZE)
    /\ up' = [Spawned(up, Buffered(up)) EXCEPT !.pc = "join"]
    /\ UNCHANGED besideUpload

\* stream.next() is None, the body (or the reader's limit) is exhausted: what
\* is left in the buffer, if anything, is the last part.
ReadEnd ==
    /\ up.pc = "read"
    /\ up.taken = Open(up.length, PUT_OBJECT_MAX_SIZE)
    /\ up' = [(IF Buffered(up) > 0 THEN Spawned(up, Buffered(up)) ELSE up) EXCEPT !.pc = "join"]
    /\ UNCHANGED besideUpload

\* buffer.extend(chunk?): reading the body fails; multipart_upload returns
\* the error and its JoinSet is dropped.
ReadFail ==
    /\ up.pc = "read"
    /\ up' = [Aborted(up) EXCEPT !.pc = "err", !.cause = "read"]
    /\ UNCHANGED besideUpload

\* semaphore.acquire().await, then upload_part's first request.
PartAcquire(n) ==
    /\ up.part[n].pc = "wait"
    /\ PermitFree(up.permits)
    /\ up' = [up EXCEPT !.part[n].pc = "put", !.part[n].permit = TRUE, !.permits = @ - 1,
                        !.sent = @ \cup {"part"}]
    /\ UNCHANGED besideUpload

\* The PUT of part n succeeds and carries an ETag.
PartPutOk(n) ==
    /\ up.part[n].pc = "put"
    /\ up' = Returns(up, n, "ok")
    /\ UNCHANGED besideUpload

\* The PUT succeeds without a usable ETag header: upload_part returns the
\* error at once.
PartNoETag(n) ==
    /\ up.part[n].pc = "put"
    /\ up' = Returns(up, n, "err")
    /\ UNCHANGED besideUpload

\* The PUT fails: back off while retry < 3, else upload_part returns the error.
PartPutFail(n) ==
    /\ up.part[n].pc = "put"
    /\ up' = IF up.part[n].retry < MaxRetry
             THEN [up EXCEPT !.part[n].pc = "sleep",
                             !.part[n].sleep = SleepSeconds(up.part[n].retry)]
             ELSE Returns(up, n, "err")
    /\ UNCHANGED besideUpload

\* sleep(retry + 1 seconds), then the next request of part n.
PartBackoff(n) ==
    /\ up.part[n].pc = "sleep"
    /\ up' = [up EXCEPT !.part[n].pc = "put", !.part[n].retry = @ + 1, !.part[n].sleep = 0]
    /\ UNCHANGED besideUpload

\* set.join_next(): the next returned task; its result is pushed, or its
\* error returned (which drops the JoinSet).
JoinNext ==
    /\ up.pc = "join"
    /\ up.finished # << >>
    /\ LET n == Head(up.finished)
           u == [up EXCEPT !.finished = Tail(@)]
       IN up' = IF JoinedOk(up.part[n])
                THEN [u EXCEPT !.parts = Append(@, MultipartUploadResult(n))]
                ELSE [Aborted(u) EXCEPT !.pc = "err", !.cause = "part"]
    /\ UNCHANGED besideUpload

\* join_next() is None: sort the parts and send CompleteMultipartUpload;
\* put_object returns the object's name if it succeeds (ok), the error if not.
Complete(ok) ==
    /\ up.pc = "join"
    /\ Len(up.parts) = up.spawned
    /\ up' = [up EXCEPT !.request = Some(SortByPartNumber(up.parts)),
                        !.sent = @ \cup {"complete"},
                        !.count.complete = @ + 1,
                        !.object = IF ok THEN Some(Assemble(up, SortByPartNumber(up.parts)))
                                   ELSE @,
                        !.pc = IF ok THEN "ok" ELSE "err",
                        !.cause = IF ok THEN "none" ELSE "complete"]
    /\ UNCHANGED besideUpload

UploadNext ==
    \/ \E length \in 0..MaxBody : PutObject(length)
    \/ \E length \in 0..MaxBody : PutObjectFail(length)
    \/ \E ok \in BOOLEAN : PutObjectByKey(ok)
    \/ PutObjectByKeyReadFail
    \/ Initiate
    \/ InitiateFail
    \/ \E size \in 1..MaxChunk : ReadChunk(size)
    \/ ReadEnd
    \/ ReadFail
    \/ \E n \in 1..MaxParts : PartAcquire(n)
    \/ \E n \in 1..MaxParts : PartPutOk(n)
    \/ \E n \in 1..MaxParts : PartNoETag(n)
    \/ \E n \in 1..MaxParts : PartPutFail(n)
    \/ \E n \in 1..MaxParts : PartBackoff(n)
    \/ JoinNext
    \/ \E ok \in BOOLEAN : Complete(ok)

UploadSpec == Init /\ [][UploadNext]_vars

\* ------------------------------------------------------------------ backoff

\* One download or one upload, with its failures.
BackoffNext ==
    \/ up.pc = "idle" /\ DownloadNext
    \/ dl.pc = "idle" /\ UploadNext

BackoffSpec == Init /\ [][BackoffNext]_vars

\* --------------------------------------------------------------- round trip

\* get_object of the name put_object returned: head_object answers with the
\* length of the object OSS stored.
Fetch ==
    /\ up.pc = "ok"
    /\ dl.pc = "idle"
    /\ dl' = [dl EXCEPT !.length = Len(up.object.v), !.heads = @ + 1,
                        !.pc = IF Len(up.object.v) = 0 THEN "end" ELSE "request"]
    /\ UNCHANGED besideDownload

\* The bytes the download stream yielded: OSS answers a range request with
\* the object's bytes at the offsets asked for.
Yielded == [i \in 1..Len(dl.out) |-> up.object.v[dl.out[i] + 1]]

\* An upload and the download of what it stored, no request failing.
RoundTripNext ==
    \/ \E length \in 0..MaxBody : PutObject(length)
    \/ PutObjectByKey(TRUE)
    \/ Initiate
    \/ \E size \in 1..MaxChunk : ReadChunk(size)
    \/ ReadEnd
    \/ \E n \in 1..MaxParts : PartAcquire(n)
    \/ \E n \in 1..MaxParts : PartPutOk(n)
    \/ JoinNext
    \/ Complete(TRUE)
    \/ Fetch
    \/ RangeOk
    \/ ChunkOk
    \/ RangeDone

RoundTripSpec == Init /\ [][RoundTripNext]_vars

\* ------------------------------------------------------------------ encoder

\* The chunks a model stream may yield: reasoning text, content text, usage,
\* each present or not.  The texts need no JSON escaping.
Chunks ==
    {Chunk(r, c, u) : r \in {None, Some("r1"), Some("r2")},
                      c \in {None, Some("c1"), Some("c2")},
                      u \in {None, Some("usage")}}

\* The task a worker has loaded and set Running.
StreamedTask == FinishedTask(RunningTask(TaskCreate(1)))

\* execute, Ok arm: the stream is encoded behind the task's text and the
\* value stored with set_raw.
PersistStream ==
    /\ enc.pc = "stream"
    /\ enc' = [enc EXCEPT !.pc = "stored", !.value = StreamValue(StreamedTask, enc.chunks)]
    /\ UNCHANGED besideEncoder

\* Executor::get of the stored record.
LoadStream ==
    /\ enc.pc = "stored"
    /\ enc' = [enc EXCEPT !.pc = "loaded", !.loaded = Get(enc.value).kind]
    /\ UNCHANGED besideEncoder

\* The model may stream any chunks.
EncoderInit ==
    /\ ExecutorInit
    /\ poll = NoPoll
    /\ chat = NoChat
    /\ dl = NoDownload
    /\ up = NoUpload
    /\ key = NoKey
    /\ sig = NoSign
    /\ svc = NoServices
    /\ enc \in {[NoStream EXCEPT !.pc = "stream", !.chunks = cs] : cs \in Lists(Chunks, MaxStream)}

EncoderNext == PersistStream \/ LoadStream

EncoderSpec == EncoderInit /\ [][EncoderNext]_vars

\* ---------------------------------------------------------------- build_key

\* Longest object name tried.
MaxName == 4

\* The characters of a name: a letter, the dot and the path separator.
Chars == {"a", ".", "/"}

Names == Lists(Chars, MaxName)

\* config.prefix.
Prefix == << "p" >>

\* The pieces of a name between its separators, empty pieces left out; cur is
\* the piece being read.
RECURSIVE Segments(_, _)
Segments(name, cur) ==
    LET piece == IF cur = << >> THEN << >> ELSE << cur >>
    IN IF name = << >> THEN piece
       ELSE IF Head(name) = "/" THEN piece \o Segments(Tail(name), << >>)
       ELSE Segments(Tail(name), Append(cur, Head(name)))

\* Path::has_root.
HasRoot(name) == name # << >> /\ Head(name) = "/"

RootDir == << "/" >>
CurDir == << "." >>

\* Path::components: the root if the name starts with a separator, then the
\* pieces; repeated and trailing separators vanish and so does every "."
\* piece but one that begins a relative name.
Components(name) ==
    LET segs == Segments(name, << >>)
        named == SelectSeq(segs, LAMBDA x : x # CurDir)
    IN IF HasRoot(name) THEN << RootDir >> \o named
       ELSE IF segs # << >> /\ Head(segs) = CurDir
            THEN << CurDir >> \o SelectSeq(Tail(segs), LAMBDA x : x # CurDir)
       ELSE named

\* Path::parent: the path without its last component; None if the path ends
\* in the root or is empty.
Parent(name) ==
    LET c == Components(name)
    IN IF c = << >> \/ c[Len(c)] = RootDir THEN None
       ELSE Some(SubSeq(c, 1, Len(c) - 1))

\* build_key's check: parent().is_some_and(|p| p != Path::new("")); paths are
\* compared by their components.
InvalidName(name) == Parent(name) # None /\ Parent(name).v # << >>

\* Path::new("/").join(prefix).join(name): an absolute name replaces the path.
JoinKey(name) ==
    IF HasRoot(name) THEN name ELSE << "/" >> \o Prefix \o << "/" >> \o name

\* get_object(name): build_key(name)? returns the error or the key.
BuildKey(name) ==
    /\ key.pc = "idle"
    /\ key' = IF InvalidName(name)
              THEN [key EXCEPT !.pc = "rejected", !.name = name]
              ELSE [key EXCEPT !.pc = "head", !.name = name, !.key = JoinKey(name)]
    /\ UNCHANGED besideKey

\* head_object(&key): the first request get_object sends for the key.
HeadObject(ok) ==
    /\ key.pc = "head"
    /\ key' = [key EXCEPT !.requests = @ + 1, !.pc = IF ok THEN "ok" ELSE "err"]
    /\ UNCHANGED besideKey

KeyNext ==
    \/ \E name \in Names : BuildKey(name)
    \/ \E ok \in BOOLEAN : HeadObject(ok)

KeySpec == Init /\ [][KeyNext]_vars

\* ------------------------------------------------------------------ sign_v4

\* How often the one request is signed.
MaxCalls == 2

\* The keys of the query and header maps in the byte order String::cmp gives.
KeyOrder ==
    << "content-disposition", "content-type", "date", "host", "partNumber", "range",
       "uploadId", "uploads", "x-oss-content-sha256", "x-oss-date" >>

Rank(k) == CHOOSE i \in 1..Len(KeyOrder) : KeyOrder[i] = k

\* The orders a map with the keys S may be iterated in.
Perms(S) == {p \in [1..Cardinality(S) -> S] : {p[i] : i \in 1..Cardinality(S)} = S}

\* A header value: its text and whether white space surrounds it.
Value(text, pad) == [text |-> text, pad |-> pad]

\* str::trim.
Trim(value) == [value EXCEPT !.pad = FALSE]

\* urlencoding::encode: a space becomes %20, letters and digits stay.
Encode(text) == IF text = "id 1" THEN "id%201" ELSE text

\* The queries of the requests to OSS: none, initiate's, upload_part's.
Queries ==
    { << >>,
      [k \in {"uploads"} |-> ""],
      [k \in {"uploadId", "partNumber"} |-> IF k = "uploadId" THEN "id 1" ELSE "1"] }

\* The headers request hands to authorize_v4: Host, x-oss-date and
\* x-oss-content-sha256 it inserted itself, and the caller's Content-Type.
Required ==
    [k \in {"host", "x-oss-date", "x-oss-content-sha256"} |->
        IF k = "host" THEN Value("bucket.endpoint", FALSE)
        ELSE IF k = "x-oss-date" THEN Value("20260101T000000Z", FALSE)
        ELSE Value("UNSIGNED-PAYLOAD", FALSE)]

HeaderMaps ==
    {Required} \cup
    {[k \in DOMAIN Required \cup {"content-type"} |->
         IF k = "content-type" THEN Value("image/png", pad) ELSE Required[k]] :
     pad \in BOOLEAN}

\* The entries of a map as a list, in the order it is iterated.
Iterate(map, order) == [i \in 1..Len(order) |-> << order[i], map[order[i]] >>]

\* The entries left as they were iterated.
AsIterated(entries) == entries

\* sorted.sort_by(|(key1, _), (key2, _)| key1.cmp(key2)): an insertion sort.
RECURSIVE SortByKey(_)
SortByKey(entries) ==
    IF entries = << >> THEN << >>
    ELSE LET e == entries[Len(entries)]
             front == SortByKey(SubSeq(entries, 1, Len(entries) - 1))
         IN SelectSeq(front, LAMBDA x : Rank(x[1]) <= Rank(e[1])) \o << e >>
            \o SelectSeq(front, LAMBDA x : Rank(x[1]) > Rank(e[1]))

\* canonical_query: the sorted pairs, encoded, a key alone if its value is
\* empty.
CanonicalQuery(query, order) ==
    LET sorted == SortByKey(Iterate(query, order))
    IN [i \in 1..Len(sorted) |->
           IF sorted[i][2] = "" THEN << Encode(sorted[i][1]) >>
           ELSE << Encode(sorted[i][1]), Encode(sorted[i][2]) >>]

\* Whether sign_v4 signs a header.
IsSigned(k, additional) ==
    \/ k \in {"content-type", "content-md5"}
    \/ k \in {"x-oss-date", "x-oss-content-sha256"}
    \/ \E i \in 1..Len(additional) : additional[i] = k

\* The signed map: x-oss-content-sha256 first, then every signed header
\* inserted, trimmed, in the order headers is iterated; a later insert of a
\* key replaces the earlier one.
RECURSIVE Inserted(_, _, _)
Inserted(signed, entries, additional) ==
    IF entries = << >> THEN signed
    ELSE LET k == Head(entries)[1]
             v == Trim(Head(entries)[2])
             next == IF ~IsSigned(k, additional) THEN signed
                     ELSE [x \in DOMAIN signed \cup {k} |-> IF x = k THEN v ELSE signed[x]]
         IN Inserted(next, Tail(entries), additional)

Signed(headers, order, additional) ==
    Inserted([k \in {"x-oss-content-sha256"} |-> headers["x-oss-content-sha256"]],
             Iterate(headers, order), additional)

\* canonical_headers: the signed map, iterated (into) and sorted by key.
CanonicalHeaders(signed, into) == SortByKey(Iterate(signed, into))

\* Sha256::digest and the chain of hmac_sha256 calls: injective, so two
\* signatures are equal exactly when what they were computed from is.
Digest(data) == [sha256 |-> data]
Hmac(k, data) == [hmac |-> k, data |-> data]

\* sign_v4(key, method, query, headers, additional_headers, ...): qo and ho
\* are the orders in which query and headers are iterated, into that of the
\* signed map.
SignV4(method, query, headers, additional, qo, ho, into) ==
    LET content_sha256 == headers["x-oss-content-sha256"]
        canonical_request ==
            << method, "/bucket/key", CanonicalQuery(query, qo),
               CanonicalHeaders(Signed(headers, ho, additional), into),
               additional, content_sha256 >>
        string_to_sign ==
            << "OSS4-HMAC-SHA256", "20260101T000000Z", "20260101/region/oss/aliyun_v4_request",
               Digest(canonical_request) >>
        date_key == Hmac("aliyun_v4secret", "20260101")
        date_region_key == Hmac(date_key, "region")
        date_region_service_key == Hmac(date_region_key, "oss")
        signing_key == Hmac(date_region_service_key, "aliyun_v4_request")
    IN Hmac(signing_key, string_to_sign)

\* request's additional_headers: the names of the caller's headers, sorted.
Additional(headers) ==
    IF "content-type" \in DOMAIN headers THEN << "content-type" >> ELSE << >>

\* A call of sign_v4 for the one request; each call iterates the maps in
\* some order.
Sign(qo, ho, into) ==
    /\ sig.pc = "ready"
    /\ Len(sig.calls) < MaxCalls
    /\ sig' = [sig EXCEPT !.calls = Append(@,
                  [qo |-> qo, ho |-> ho,
                   signature |-> SignV4(sig.method, sig.query, sig.headers,
                                        sig.additional, qo, ho, into)])]
    /\ UNCHANGED besideSign

\* Any request may be signed.
SignInit ==
    /\ ExecutorInit
    /\ poll = NoPoll
    /\ chat = NoChat
    /\ dl = NoDownload
    /\ up = NoUpload
    /\ key = NoKey
    /\ svc = NoServices
    /\ enc = NoStream
    /\ sig \in {[NoSign EXCEPT !.pc = "ready", !.method = m, !.query = q, !.headers = h,
                               !.additional = Additional(h)] :
                 m \in {"GET", "PUT"}, q \in Queries, h \in HeaderMaps}

SignNext ==
    \E qo \in Perms(DOMAIN sig.query), ho \in Perms(DOMAIN sig.headers) :
        \E into \in Perms(DOMAIN Signed(sig.headers, ho, sig.additional)) :
            Sign(qo, ho, into)

SignSpec == SignInit /\ [][SignNext]_vars

\* ------------------------------------------------------------------ request

\* The names of the headers the callers of request pass: put_object and
\* initiate_multipart_upload Content-Type and Content-Disposition,
\* get_object_range Range, the others none.
CallerNames == {"Content-Type", "Content-Disposition", "Range"}

\* HeaderName::as_str().to_lowercase().
Lower(name) ==
    CASE name = "Content-Type" -> "content-type"
      [] name = "Content-Disposition" -> "content-disposition"
      [] name = "Range" -> "range"
      [] OTHER -> name

\* The value a caller gives a header.
CallerValue(name) ==
    CASE name = "Content-Type" -> Value("image/png", FALSE)
      [] name = "Content-Disposition" -> Value("attachment; filename=name.png", FALSE)
      [] OTHER -> Value("bytes=0-1", FALSE)

\* The elements of S as a list in the order of KeyOrder.
InOrder(S) == SelectSeq(KeyOrder, LAMBDA k : k \in S)

\* additional_headers of request: the lowercased names of the caller's
\* headers, which keys() yields in the order given, sorted.
AdditionalHeaders(order) ==
    LET lowered == [i \in 1..Len(order) |-> << Lower(order[i]), order[i] >>]
        sorted == SortByKey(lowered)
    IN [i \in 1..Len(sorted) |-> sorted[i][1]]

\* headers as request hands it to authorize_v4: the caller's headers, and
\* Host, Date, x-oss-date and x-oss-content-sha256 inserted.
RequestHeaders(caller) ==
    [k \in {Lower(n) : n \in caller} \cup DOMAIN Required \cup {"date"} |->
        IF k \in DOMAIN Required THEN Required[k]
        ELSE IF k = "date" THEN Value("Thu, 01 Jan 2026 00:00:00 GMT", FALSE)
        ELSE CallerValue(CHOOSE n \in caller : Lower(n) = k)]

\* authorize_v4: the credential, the AdditionalHeaders clause if there are
\* additional headers (its names are joined by ';'), and the signature.
\* sign_v4 sorts whatever it iterates, so the maps are iterated in key order
\* here.
AuthorizeV4(method, query, headers, additional) ==
    LET signed == Signed(headers, InOrder(DOMAIN headers), additional)
    IN [credential |-> "AK/20260101/region/oss/aliyun_v4_request",
        clause |-> IF additional # << >> THEN Some(additional) ELSE None,
        signature |-> SignV4(method, query, headers, additional,
                             InOrder(DOMAIN query), InOrder(DOMAIN headers),
                             InOrder(DOMAIN signed))]

\* request(key, method, query, headers, data): the caller's headers are
\* named in additional_headers, the request is authorized and sent, and OSS
\* answers with success or not.
Request(method, query, order, ok) ==
    LET caller == {order[i] : i \in 1..Len(order)}
        additional == AdditionalHeaders(order)
        headers == RequestHeaders(caller)
        auth == AuthorizeV4(method, query, headers, additional)
    IN /\ sig.pc = "idle"
       /\ Len(sig.sent) < MaxCalls
       /\ sig' = [sig EXCEPT !.sent = Append(@,
                     [method |-> method, query |-> query, caller |-> caller,
                      headers |-> [k \in DOMAIN headers \cup {"authorization"} |->
                                      IF k = "authorization" THEN auth ELSE headers[k]],
                      result |-> IF ok THEN "response" ELSE "error"])]
       /\ UNCHANGED besideSign

\* No request was made yet.
RequestInit ==
    /\ ExecutorInit
    /\ poll = NoPoll
    /\ chat = NoChat
    /\ dl = NoDownload
    /\ up = NoUpload
    /\ key = NoKey
    /\ svc = NoServices
    /\ enc = NoStream
    /\ sig = NoSign

RequestNext ==
    \E method \in {"GET", "PUT"}, query \in Queries, caller \in SUBSET CallerNames, ok \in BOOLEAN :
        \E order \in Perms(caller) : Request(method, query, order, ok)

RequestSpec == RequestInit /\ [][RequestNext]_vars

\* ----------------------------------------------------------------- services

Callers == 1..MaxCallers

\* TypeMap::set: stores the value unless the type has one already.
SetOnce(slot, value) == IF slot = None THEN Some(value) ELSE slot

\* inject: SERVICES.try_get() answers with the instance, or with None and
\* the caller goes on to register.
TryGet(c) ==
    /\ svc.caller[c].pc = "idle"
    /\ svc' = IF svc.slot # None
              THEN [svc EXCEPT !.caller[c].pc = "done", !.caller[c].got = svc.slot.v]
              ELSE [svc EXCEPT !.caller[c].pc = "new"]
    /\ UNCHANGED besideServices

\* register: T::new(config), the argument of set, builds an instance; the
\* instances are numbered as they are built.
New(c) ==
    /\ svc.caller[c].pc = "new"
    /\ svc' = [svc EXCEPT !.built = @ + 1, !.caller[c].made = svc.built + 1,
                          !.caller[c].pc = "set"]
    /\ UNCHANGED besideServices

\* register: SERVICES.set(...) with the instance the caller built.
Set(c) ==
    /\ svc.caller[c].pc = "set"
    /\ svc' = [svc EXCEPT !.slot = SetOnce(@, svc.caller[c].made), !.caller[c].pc = "get"]
    /\ UNCHANGED besideServices

\* register: SERVICES.get() is the instance the caller is given.
ServicesGet(c) ==
    /\ svc.caller[c].pc = "get"
    /\ svc' = [svc EXCEPT !.caller[c].pc = "done", !.caller[c].got = svc.slot.v]
    /\ UNCHANGED besideServices

\* The requests are served on the runtime's worker threads, in parallel.
ServicesNext ==
    \E c \in Callers : TryGet(c) \/ New(c) \/ Set(c) \/ ServicesGet(c)

ServicesSpec == Init /\ [][ServicesNext]_vars

\* --------------------------------------------------------------------- spec

Submit(i) ==
    \/ SubmitSet(i)
    \/ SubmitLpush(i)
    \/ SubmitSpawn(i)
    \/ SubmitNoSpawn(i)

Work(w) ==
    \/ ConsumePop(w)
    \/ ConsumeTimeout(w)
    \/ ConsumeGet(w)
    \/ ExecuteSetRunning(w)
    \/ ModelOk(w)
    \/ ModelErr(w)
    \/ Persist(w)
    \/ Exit(w)

RedisFailure ==
    \/ \E i \in TaskIds : SubmitSetFail(i) \/ SubmitLpushFail(i)
    \/ \E w \in TaskIds : ConsumePopFail(w)
    \/ \E w \in TaskIds : ConsumeGetFail(w) \/ ExecuteSetRunningFail(w) \/ PersistFail(w)

Next ==
    \/ \E i \in TaskIds : Submit(i)
    \/ \E w \in TaskIds : Work(w)
    \/ RedisFailure
    \/ \E i \in TaskIds : Expire(i)

Spec == Init /\ [][Next]_vars

\* Redis never fails and no record expires; every step of a submit call in
\* progress and of a live worker is eventually taken (the tokio runtime polls
\* every ready task), while new create requests may stop coming.
NextReliable ==
    \/ \E i \in TaskIds : Submit(i)
    \/ \E w \in TaskIds : Work(w)

Progress ==
    /\ \A i \in TaskIds : WF_vars(SubmitLpush(i) \/ SubmitSpawn(i) \/ SubmitNoSpawn(i))
    /\ \A w \in TaskIds : WF_vars(Work(w))

FairSpec == Init /\ [][NextReliable]_vars /\ Progress

\* The timeout query parameter of /task/result: absent, or a number of seconds.
Timeouts == {None} \cup {Some(t) : t \in 0..MaxTimeout}

\* The ids a request carries: those of the tasks, and 0 for an id that no
\* create request ever returned.
RequestIds == {0} \cup PolledIds

\* One result or query request next to the executor, with Redis failures and
\* expiry, over MaxPolled tasks.  MaxPolled is at most NumWorkers, so the
\* try_acquire of a submit always finds a permit (SubmitsAlwaysSpawn below)
\* and SubmitNoSpawn has no part in these runs.
ResultNext ==
    \/ \E i \in PolledIds : SubmitSet(i) \/ SubmitLpush(i) \/ SubmitSpawn(i)
    \/ \E w \in PolledIds : Work(w)
    \/ \E i \in PolledIds : SubmitSetFail(i) \/ SubmitLpushFail(i)
    \/ \E w \in PolledIds : ConsumeGetFail(w) \/ ExecuteSetRunningFail(w) \/ PersistFail(w)
    \/ \E i \in PolledIds : Expire(i)
    \/ \E i \in RequestIds, t \in Timeouts : ResultCall(i, t)
    \/ ResultPoll
    \/ ResultPollFail
    \/ ResultTick
    \/ \E i \in RequestIds : Query(i)

ResultSpec == Init /\ [][ResultNext]_vars

\* One result request next to the reliable executor: Redis never fails and no
\* record expires.
ResultReliableNext ==
    \/ NextReliable
    \/ \E i \in TaskIds, t \in Timeouts : ResultCall(i, t)
    \/ ResultPoll
    \/ ResultTick

ResultReliableSpec == Init /\ [][ResultReliableNext]_vars

\* --------------------------------------------------------------- properties

Range(q) == {q[n] : n \in 1..Len(q)}

\* Workers whose coroutine is running (each holds the permit its submit took).
LiveWorkers == {w \in TaskIds : worker[w].pc # "none"}

\* Workers waiting for model.stream to return.
InvokingModel == {w \in TaskIds : worker[w].pc = "model"}

\* Ids whose stored record has the given status.
Stored(status) == {i \in TaskIds : store[i] # Nil /\ StoredStatus(store[i]) = status}

\* Ids whose final record a worker failed to write.
Orphaned == {i \in TaskIds : hist[i].persisted = "fail"}

IsPrefix(a, b) == Len(a) <= Len(b) /\ SubSeq(b, 1, Len(a)) = a

\* C1: at most num_workers worker coroutines are live, and so at most
\* num_workers model invocations are in progress, in every reachable state.
WorkersBounded ==
    /\ Cardinality(LiveWorkers) <= NumWorkers
    /\ Cardinality(InvokingModel) <= NumWorkers

\* The pool is full with every worker inside a model call, and one more task
\* was submitted whose submit found no permit.
WorkersBoundedWitness ==
    /\ Cardinality(InvokingModel) = NumWorkers
    /\ \E i \in TaskIds :
        spc[i] = "ok" /\ worker[i].pc = "none" /\ hist[i].pops = 0 /\ i \in Range(queue)

\* C2: under FairSpec (no Redis failure, no expiry, fair scheduling, no
\* further submit needed) every task whose submit returned Ok eventually has
\* a stored record with status Finished or Failed.
EveryTaskFinishes ==
    \A i \in TaskIds :
        (spc[i] = "ok") ~> (i \in Stored(Finished) \cup Stored(Failed))

\* C3 as stated: at most num_workers records are stored with status Running.
RunningBounded == Cardinality(Stored(Running)) <= NumWorkers

\* C3 amended: not counting the records left Running by a failed write of
\* their final record, at most num_workers records are stored Running.
RunningBoundedButOrphans == Cardinality(Stored(Running) \ Orphaned) <= NumWorkers

\* num_workers tasks are being executed while an orphaned record is still
\* stored Running.
RunningBoundedWitness ==
    /\ Cardinality(Stored(Running) \ Orphaned) = NumWorkers
    /\ Stored(Running) \cap Orphaned # {}

\* C4: the statuses written to a task's record are, in order, Pending then
\* Running then Finished or Failed, and the record holds the last one written.
StatusOrder ==
    \A i \in TaskIds :
        /\ \/ IsPrefix(hist[i].writes, << Pending, Running, Finished >>)
           \/ IsPrefix(hist[i].writes, << Pending, Running, Failed >>)
        /\ store[i] # Nil => StoredStatus(store[i]) = hist[i].writes[Len(hist[i].writes)]

\* One task went through to Finished and another to Failed.
StatusOrderWitness ==
    \E i, j \in TaskIds :
        /\ hist[i].writes = << Pending, Running, Finished >>
        /\ hist[j].writes = << Pending, Running, Failed >>

\* Whether the last status written to i's record is Finished or Failed.
Terminal(i) ==
    /\ hist[i].writes # << >>
    /\ hist[i].writes[Len(hist[i].writes)] \in {Finished, Failed}

\* C5: once a record was written Finished or Failed, no step writes it again:
\* the stored value stays the same until it expires (and is not re-created
\* afterwards), so get returns the same result every time.
TerminalImmutable ==
    [][\A i \in TaskIds :
         Terminal(i) =>
            /\ hist'[i].writes = hist[i].writes
            /\ store'[i] \in {store[i], Nil}
            /\ store'[i] # Nil => Get(store'[i]) = Get(store[i])]_vars

\* A Failed record and a Finished record are stored while a worker is
\* executing another task (its record Running).
TerminalImmutableWitness ==
    /\ Stored(Failed) # {}
    /\ Stored(Finished) # {}
    /\ \E w \in TaskIds : worker[w].pc = "persist" /\ worker[w].id \in Stored(Running)

\* Ids whose model stream succeeded and whose streamed record was stored.
Streamed == {i \in TaskIds : hist[i].result = "ok" /\ hist[i].persisted = "ok"}

\* C6: every record a worker stored after a successful model stream is read
\* back by get as a Task with status Finished, a completion and a finish_time.
StreamRecordReadable ==
    \A i \in Streamed :
        store[i] # Nil =>
            LET g == Get(store[i]) IN
            /\ g.kind = "task"
            /\ g.task.status = Finished
            /\ g.task.completion.some
            /\ g.task.finish_time.some

\* C7: after the model call for a task returned an error, the record the
\* worker writes is Failed with an err_msg, and once written it is what get
\* returns; the id is not in the pending queue and was pushed once; the model
\* was called once for the task.
ModelErrorStored ==
    \A i \in TaskIds :
        hist[i].result = "err" =>
            /\ i \notin Range(queue)
            /\ Cardinality({n \in 1..Len(pushed) : pushed[n] = i}) = 1
            /\ hist[i].calls = 1
            /\ \A w \in TaskIds :
                worker[w].pc = "persist" /\ worker[w].id = i =>
                    LET g == Get(worker[w].value) IN
                    g.kind = "task" /\ g.task.status = Failed /\ g.task.err_msg.some
            /\ hist[i].persisted = "ok" /\ store[i] # Nil =>
                    LET g == Get(store[i]) IN
                    g.kind = "task" /\ g.task.id = i /\ g.task.status = Failed
                    /\ g.task.err_msg.some

\* A task whose model call failed is stored Failed while a worker is inside
\* the model call of another task.
ModelErrorStoredWitness ==
    \E i \in TaskIds :
        /\ hist[i].result = "err" /\ hist[i].persisted = "ok"
        /\ i \in Stored(Failed)
        /\ \E w \in TaskIds : worker[w].pc = "model"

\* C8: for every task whose submit returned Ok and whose record has not
\* expired, get returns a task with that id and one of the four statuses.
SubmittedTaskReadable ==
    \A i \in TaskIds :
        spc[i] = "ok" /\ ~hist[i].expired =>
            LET g == Get(store[i]) IN
            g.kind = "task" /\ g.task.id = i /\ g.task.status \in Statuses

\* Workers that hold id i (popped it and are not done with it).
Holders(i) == {w \in TaskIds : worker[w].id = i}

\* C9: each id is popped at most once and held by at most one worker, the
\* model is called at most once per task, and after submit's write a record
\* is written only by a step of the worker that holds its id.
DeliveredOnce ==
    /\ [](\A i \in TaskIds :
            /\ hist[i].pops <= 1
            /\ hist[i].calls <= 1
            /\ Cardinality(Holders(i)) <= hist[i].pops)
    /\ [][\A i \in TaskIds :
            hist'[i].writes # hist[i].writes /\ hist[i].writes # << >> =>
                \E w \in Holders(i) :
                    /\ worker[w].pc \in {"execute", "persist"}
                    /\ worker'[w].pc # worker[w].pc
                    /\ \A v \in TaskIds \ {w} : worker'[v] = worker[v]]_vars

\* Two workers execute two different tasks at the same time.
DeliveredOnceWitness ==
    \E v, w \in TaskIds :
        /\ v # w
        /\ worker[v].pc = "model" /\ worker[w].pc = "persist"
        /\ worker[v].id # worker[w].id

\* C10: ids leave the pending queue in the order they were pushed.
FifoOrder == IsPrefix(popped, pushed)

\* Two workers are live, the pushes came in another order than the create
\* requests started, and every id pushed has been popped.
FifoOrderWitness ==
    /\ Cardinality(LiveWorkers) = NumWorkers
    /\ Len(pushed) = MaxTasks
    /\ pushed[1] > pushed[2]
    /\ popped = pushed

\* In the runs of ResultSpec no submit finds the semaphore without a permit.
SubmitsAlwaysSpawn == \A i \in PolledIds : ~ENABLED SubmitNoSpawn(i)

\* A result call has returned.
ResultDone == poll.op = "result" /\ poll.pc = "done"

\* C11 as stated: a result call with timeout 0 polls once: it never waits for
\* a second poll, whatever the status it read.
ZeroTimeoutPollsOnce ==
    poll.op = "result" /\ poll.timeout = 0 => poll.pc # "tick" /\ poll.elapsed = 0

\* C11: a result call with timeout 0 has no deadline: the task it returns is
\* Finished or Failed, never Pending or Running.
ZeroTimeoutWaits ==
    ResultDone /\ poll.timeout = 0 /\ poll.ret.kind = "task"
        => poll.ret.status \in {Finished, Failed}

\* A result call with timeout 0 that read a non-terminal status at its first
\* poll, polled again a second later and returned the task once it was Failed.
ZeroTimeoutWaitsWitness ==
    /\ ResultDone
    /\ poll.timeout = 0
    /\ poll.elapsed >= 1
    /\ poll.ret = [kind |-> "task", status |-> Failed]

\* C12: a result call without timeout, for a task whose model call succeeded,
\* returns the task with status Finished (when no Redis command failed and
\* no record expired).
NoTimeoutReturnsFinished ==
    /\ ResultDone
    /\ poll.timeout = 0
    /\ poll.id \in TaskIds
    /\ faults = [failures |-> 0, expiries |-> 0]
    => (hist[poll.id].result = "ok"
            => poll.ret = [kind |-> "task", status |-> Finished])

\* C13: whenever a poll of result finds no record under the id, the call ends
\* there with the error "Task '<id>' not existed" and returns no task.
MissingTaskFails ==
    [][/\ poll.op = "result"
       /\ poll.pc = "get"
       /\ poll' # poll
       /\ faults' = faults
       /\ Lookup(store, poll.id) = Nil
       => poll'.pc = "done" /\ poll'.ret = [kind |-> "missing", status |-> "none"]]_vars

\* A result call found the record at its first poll, waited, and failed with
\* "not existed" at a later poll because the record had expired in between.
MissingTaskFailsWitness ==
    /\ ResultDone
    /\ poll.id \in TaskIds
    /\ hist[poll.id].expired
    /\ poll.elapsed >= 1
    /\ poll.ret.kind = "missing"

\* A result call for an id that was never submitted failed with "not existed"
\* at its first poll.
UnknownTaskFailsWitness ==
    ResultDone /\ poll.id = 0 /\ poll.elapsed = 0 /\ poll.ret.kind = "missing"

\* A result call returned task i on its deadline, still Pending or Running.
ReturnedOnTimeout(i) ==
    /\ ResultDone
    /\ poll.id = i
    /\ poll.timeout > 0
    /\ poll.ret.kind = "task"
    /\ poll.ret.status \in {Pending, Running}

\* No worker is alive and no submit call is in progress: without a further
\* create request the executor takes no step.
AtRest ==
    /\ \A w \in TaskIds : worker[w].pc = "none"
    /\ \A j \in TaskIds : spc[j] \in {"idle", "ok", "err"}

\* The frame of C14: no step of a result or query request changes the task
\* store, the pending queue, the semaphore or the workers.
ResultLeavesExecutor ==
    [][poll' # poll => UNCHANGED << store, queue, sem, worker >>]_vars

\* C14: a task that a result call returned on timeout still reaches its
\* terminal state: once the executor has come to rest, the record of the task
\* is Finished or Failed.
TimedOutTaskFinishes ==
    \A i \in TaskIds : ReturnedOnTimeout(i) /\ AtRest => Terminal(i)

\* C15: the message goes to the text model exactly when both its images and
\* its videos field are absent and to the multimodal model otherwise; the
\* same message with no context, an empty context or a context that carries
\* an image is text-only exactly when the chosen model is the text model.
DispatchByOwnMedia ==
    chat.route # "none" =>
        /\ chat.model = Qwen3 <=> chat.message.images = None /\ chat.message.videos = None
        /\ chat.model = Qwen3VL <=> ~(chat.message.images = None /\ chat.message.videos = None)
        /\ \A c \in {None, Some(<< >>), Some(<< Msg(None, Some(<< "url" >>), None, None) >>)} :
              chat.model = Qwen3 <=> OnlyText([chat.message EXCEPT !.context = c])

\* A message without images and videos whose context message carries an image
\* went to the text model.
DispatchByOwnMediaWitness ==
    /\ chat.route = "completion"
    /\ chat.model = Qwen3
    /\ chat.message.context # None
    /\ \E n \in 1..Len(chat.message.context.v) : chat.message.context.v[n].images # None

\* A message with an empty list of videos and no images went to the
\* multimodal model.
EmptyVideosWitness ==
    /\ chat.route # "none"
    /\ chat.model = Qwen3VL
    /\ chat.message.images = None
    /\ chat.message.videos = Some(<< >>)

\* The number of range requests made for the range that begins at start.
RangeTries(start) ==
    Cardinality({n \in 1..Len(dl.requests) : dl.requests[n][1] = start})

\* C16: the stream yields the bytes of the object in strictly increasing
\* offset order, none twice.
YieldedIncreasing ==
    \A a, b \in 1..Len(dl.out) : a < b => dl.out[a] < dl.out[b]

\* C17: no range is requested more than 4 times; no range beyond the current
\* one is requested; after the 4th request of a range no further request of
\* it is prepared; and a stream that ended before the last range did so after
\* 4 requests of the range it stopped at, having yielded nothing but bytes.
RangeRetriesBounded ==
    /\ \A n \in 1..Len(dl.requests) :
          /\ RangeTries(dl.requests[n][1]) <= MaxRetry + 1
          /\ dl.requests[n][1] <= dl.start
    /\ RangeTries(dl.start) = MaxRetry + 1 => dl.pc \in {"read", "end"}
    /\ dl.pc = "end" /\ dl.start < dl.length =>
          /\ RangeTries(dl.start) = MaxRetry + 1
          /\ \A n \in 1..Len(dl.out) : dl.out[n] \in 0..(dl.length - 1)

\* The first range took a retry, the second range was then requested 4 times
\* and failed each time, and the stream ended there.
RangeRetriesBoundedWitness ==
    /\ dl.pc = "end"
    /\ dl.start > 0
    /\ dl.start < dl.length
    /\ RangeTries(0) >= 2
    /\ RangeTries(dl.start) = MaxRetry + 1

\* The part tasks with an upload_part call in progress: a request in flight
\* or a backoff sleep between two requests.
Uploading == {n \in 1..MaxParts : up.part[n].pc \in {"put", "sleep"}}

\* C18: the part numbers in the CompleteMultipartUpload request are exactly
\* 1, 2, ..., k in this order, k being the number of parts split from the body.
PartNumbersInOrder ==
    up.request # None =>
        [n \in 1..Len(up.request.v) |-> up.request.v[n].part_number]
            = [n \in 1..up.spawned |-> n]

\* A request was sent for three parts or more of which a later part had
\* finished before an earlier one.
PartNumbersInOrderWitness ==
    /\ up.request # None
    /\ up.spawned >= 3
    /\ \E a, b \in 1..Len(up.parts) :
          a < b /\ up.parts[a].part_number > up.parts[b].part_number

\* C19: at most 3 upload_part calls are in progress, and each of them is by a
\* task that holds a permit; the permits out and the permits left add up to 3.
PartUploadsBounded ==
    /\ Cardinality(Uploading) <= MULTIPART_UPLOAD_WORKERS_NUM
    /\ \A n \in Uploading : up.part[n].permit
    /\ up.pc \in {"read", "join"} =>
          up.permits + Cardinality({n \in 1..MaxParts : up.part[n].permit})
              = MULTIPART_UPLOAD_WORKERS_NUM

\* Three calls are in progress, one of them in a backoff sleep, while a
\* fourth spawned task waits for a permit.
PartUploadsBoundedWitness ==
    /\ Cardinality(Uploading) = MULTIPART_UPLOAD_WORKERS_NUM
    /\ \E n \in Uploading : up.part[n].pc = "sleep"
    /\ \E n \in 1..MaxParts : up.part[n].pc = "wait"

\* A part upload failed finally, or reading the body failed.
UploadBroken ==
    \/ \E n \in 1..MaxParts : up.part[n].pc = "err"
    \/ up.cause = "read"

\* C20: a CompleteMultipartUpload request was sent only when every spawned
\* part upload had succeeded; when a part failed finally or reading the body
\* failed, no such request is sent and put_object does not return a name:
\* it has returned the error or is still to take a step.
CompleteOnlyAfterAllParts ==
    /\ up.request # None => \A n \in 1..up.spawned : up.part[n].pc = "ok"
    /\ UploadBroken =>
          /\ up.request = None
          /\ up.pc # "ok"
          /\ up.pc = "err" \/ ENABLED UploadNext

\* put_object returned the error of a part that failed after its 3 retries,
\* other parts having succeeded; no request was sent.
CompleteOnlyAfterAllPartsWitness ==
    /\ up.pc = "err"
    /\ up.cause = "part"
    /\ up.request = None
    /\ \E n \in 1..MaxParts : up.part[n].pc = "err" /\ up.part[n].retry = MaxRetry
    /\ \E n \in 1..MaxParts : up.part[n].pc = "ok"

\* put_object returned the error of the body reader after some part had
\* been uploaded; no request was sent.
BodyFailureWitness ==
    /\ up.pc = "err"
    /\ up.cause = "read"
    /\ up.request = None
    /\ \E n \in 1..MaxParts : up.part[n].pc = "ok"

\* C21: a whole-object PUT is sent only for a declared length of at most the
\* threshold and then no initiate, part or complete request is; those are sent
\* only for a longer declared length and then no whole-object PUT is; an
\* upload that returned ok sent the PUT in the first case and the multipart
\* requests in the second.
PutByThreshold ==
    /\ "put" \in up.sent => up.length <= Threshold /\ up.sent = {"put"}
    /\ up.sent \cap {"initiate", "part", "complete"} # {} =>
           up.length > Threshold /\ "put" \notin up.sent
    /\ up.pc = "ok" =>
           IF up.length <= Threshold THEN up.sent = {"put"}
           ELSE {"initiate", "complete"} \subseteq up.sent

\* An upload of exactly the threshold went out as one PUT.
PutByThresholdWitness ==
    up.pc = "ok" /\ up.length = Threshold /\ up.sent = {"put"}

\* An upload one byte above the threshold went out as a multipart upload.
MultipartAboveThresholdWitness ==
    up.pc = "ok" /\ up.length = Threshold + 1 /\ up.sent = {"initiate", "part", "complete"}

\* The characters of a name.
Letters(name) == {name[k] : k \in 1..Len(name)}

\* C22: a name that contains a path separator, wherever it stands, is rejected
\* by get_object and no request is sent for it.
SeparatorRejected ==
    key.pc # "idle" /\ "/" \in Letters(key.name) =>
        key.pc = "rejected" /\ key.requests = 0

\* What the check does reject: a name with a separator before a letter.
SeparatorBeforeLetterRejected ==
    /\ key.pc # "idle"
    /\ \E j, k \in 1..Len(key.name) : j < k /\ key.name[j] = "/" /\ key.name[k] = "a"
    => key.pc = "rejected" /\ key.requests = 0

\* A name with a trailing separator got its request.
TrailingSeparatorWitness ==
    key.name = << "a", "/" >> /\ key.requests = 1

\* C23: two calls of sign_v4 for the same request return the same signature,
\* whatever the orders its maps were iterated in.
SignatureDeterministic ==
    \A a, b \in 1..Len(sig.calls) : sig.calls[a].signature = sig.calls[b].signature

\* A request with two query parameters and a signed caller's header was
\* signed twice, its query and its headers iterated in different orders.
SignatureDeterministicWitness ==
    /\ Len(sig.calls) = 2
    /\ Cardinality(DOMAIN sig.query) = 2
    /\ "content-type" \in DOMAIN sig.headers
    /\ sig.calls[1].qo # sig.calls[2].qo
    /\ sig.calls[1].ho # sig.calls[2].ho

\* C24: the constructor of a service type runs once per process, however
\* many requests access the type for the first time at once.
ConstructedOnce == svc.built <= 1

\* Every caller is given the instance the registry holds.
SameInstance ==
    \A c \in Callers : svc.caller[c].pc = "done" => svc.caller[c].got = svc.slot.v

\* Two requests built an instance each and were given the same one.
ConstructedTwiceWitness ==
    /\ svc.built = 2
    /\ \A c \in {1, 2} : svc.caller[c].pc = "done" /\ svc.caller[c].made # 0

\* The bodies of the parts 1..n put one after the other.
RECURSIVE PartsInOrder(_)
PartsInOrder(n) == IF n = 0 THEN << >> ELSE PartsInOrder(n - 1) \o up.part[n].body

\* C25: with no failure and a body within the read cap, what put_object sent
\* (the one PUT's body, or the part bodies in ascending part number order) and
\* what OSS stored are the request body, and the download of the stored
\* object yields content_length bytes equal to the body.
RoundTrip ==
    up.length <= PUT_OBJECT_MAX_SIZE =>
        /\ up.pc = "ok" =>
               /\ up.object.v = Body(up.length)
               /\ up.length > Threshold => PartsInOrder(up.spawned) = Body(up.length)
        /\ dl.pc = "end" =>
               /\ dl.length = up.length
               /\ Len(dl.out) = up.length
               /\ Yielded = Body(up.length)

\* A multipart upload with a short last part was downloaded to its end.
RoundTripWitness ==
    /\ up.pc = "ok" /\ dl.pc = "end"
    /\ up.length = 2 * PartSize + 1
    /\ up.spawned = 3
    /\ Len(dl.out) = up.length

\* A single PUT of a body of the threshold's length was downloaded to its end.
SinglePutRoundTripWitness ==
    up.pc = "ok" /\ dl.pc = "end" /\ up.length = Threshold /\ Len(dl.out) = Threshold

\* A body one byte above the read cap lost its last byte.
TruncatedWitness ==
    up.pc = "ok" /\ up.length = MaxBody /\ Len(up.object.v) = PUT_OBJECT_MAX_SIZE

\* Whether submit pushed the id.
Pushed(i) == \E k \in 1..Len(pushed) : pushed[k] = i

\* C26: submit writes the Pending record, then pushes the id, then tries to
\* acquire a permit; a failed write returns an error with nothing enqueued and
\* no worker, a failed push an error with no worker, and only a submit that
\* returns ok has spawned a worker.
SubmitInOrder ==
    \A i \in TaskIds :
        /\ spc[i] = "idle" => hist[i].writes = << >> /\ ~Pushed(i)
        /\ spc[i] = "lpush" => hist[i].writes = << Pending >> /\ ~Pushed(i)
        /\ spc[i] = "acquire" => Head(hist[i].writes) = Pending /\ Pushed(i)
        /\ spc[i] = "err" => ~Pushed(i) /\ hist[i].writes \in {<< >>, << Pending >>}
        /\ worker[i].pc # "none" => spc[i] = "ok" /\ Pushed(i)

\* A push failed after the record was written, and another submit spawned a
\* worker.
SubmitInOrderWitness ==
    \E i, j \in TaskIds :
        /\ spc[i] = "err" /\ hist[i].writes = << Pending >> /\ worker[i].pc = "none"
        /\ spc[j] = "ok" /\ worker[j].pc # "none"

\* The write failed: nothing stored, nothing enqueued, no worker.
WriteFailedWitness ==
    \E i \in TaskIds : spc[i] = "err" /\ hist[i].writes = << >> /\ store[i] = Nil

\* A step of a worker in which a Redis command fails.
WorkerStepFails == faults'.failures = faults.failures + 1 /\ spc' = spc

\* C27: a worker leaves its loop only from a pop that found the list empty,
\* and then exits and releases its permit; a failed pop, load or execute
\* changes neither the store nor the semaphore and leaves the worker at the
\* next pop.
WorkerKeepsPermit ==
    [][\A w \in TaskIds :
         /\ worker[w].pc # "break" /\ worker'[w].pc = "break" =>
                worker[w].pc = "consume" /\ queue = << >>
         /\ worker[w].pc # "none" /\ worker'[w].pc = "none" =>
                worker[w].pc = "break" /\ sem'.permits = sem.permits + 1
         /\ worker[w].pc = "break" /\ worker'[w] # worker[w] => worker'[w].pc = "none"
         /\ WorkerStepFails =>
                /\ worker'[w] = worker[w] \/ worker'[w].pc = "consume"
                /\ store' = store
                /\ sem' = sem
         /\ worker[w].pc = "get" /\ worker'[w].pc # "execute" /\ worker'[w] # worker[w] =>
                worker'[w].pc = "consume" /\ store' = store /\ sem' = sem]_vars

\* The final write of a worker failed: the task is still Running in the
\* store and the worker, holding its permit, is back at the pop.
WorkerKeepsPermitWitness ==
    \E i, w \in TaskIds :
        /\ hist[i].persisted = "fail"
        /\ store[i] # Nil /\ StoredStatus(store[i]) = Running
        /\ worker[w].pc = "consume"
        /\ sem.permits < NumWorkers

\* C28: a worker that popped an id without a record calls no model, writes
\* no record and goes on to the next pop.
MissingRecordSkipped ==
    [][\A w \in TaskIds :
         worker[w].pc = "get" /\ store[worker[w].id] = Nil /\ worker'[w] # worker[w] =>
             /\ worker'[w].pc = "consume"
             /\ store' = store
             /\ hist'[worker[w].id].calls = hist[worker[w].id].calls
             /\ sem' = sem]_vars

\* An id whose record expired in the queue was popped and skipped: no model
\* was called for it and nothing was written after the Pending record.
MissingRecordSkippedWitness ==
    \E i \in TaskIds :
        /\ hist[i].expired /\ hist[i].pops = 1
        /\ hist[i].calls = 0 /\ hist[i].writes = << Pending >>
        /\ store[i] = Nil
        /\ faults.failures = 0
        /\ \A w \in TaskIds : worker[w].id # i /\ worker[w].pc \in {"consume", "none"}

EmptyObjectWitness ==
    up.pc = "ok" /\ dl.pc = "end" /\ dl.length = 0 /\ dl.requests = << >>

\* C30: the sleep that ends when the n-th retry of a range or of a part
\* begins (n = 1, 2, 3) lasted n seconds, which for a range is the number of
\* requests made for it so far; a sleep begins only at a failed attempt that
\* is not the fourth, so none follows a fourth failure or a success.
BackoffSeconds ==
    [][/\ dl.pc = "sleep" /\ dl'.pc # "sleep" =>
              /\ dl'.pc = "request"
              /\ dl'.retry \in 1..MaxRetry
              /\ dl.sleep = dl'.retry
              /\ dl.sleep = RangeTries(dl.start)
       /\ dl.pc # "sleep" /\ dl'.pc = "sleep" =>
              /\ dl.pc \in {"request", "read"}
              /\ dl.retry < MaxRetry
              /\ dl'.out = dl.out /\ dl'.start = dl.start
       /\ dl.pc \in {"request", "read"} /\ dl.retry = MaxRetry => dl'.pc # "sleep"
       /\ \A n \in 1..MaxParts :
              /\ up.part[n].pc = "sleep" /\ up'.part[n].pc # "sleep" =>
                     /\ up'.part[n].pc \in {"put", "aborted"}
                     /\ up'.part[n].pc = "put" =>
                            /\ up'.part[n].retry \in 1..MaxRetry
                            /\ up.part[n].sleep = up'.part[n].retry
              /\ up.part[n].pc # "sleep" /\ up'.part[n].pc = "sleep" =>
                     /\ up.part[n].pc = "put"
                     /\ up.part[n].retry < MaxRetry
                     /\ up'.finished = up.finished
              /\ up.part[n].pc = "put" /\ up.part[n].retry = MaxRetry =>
                     up'.part[n].pc # "sleep"]_vars

\* A range sleeps three seconds after its third failed attempt.
BackoffSecondsWitness ==
    dl.pc = "sleep" /\ dl.sleep = 3 /\ RangeTries(dl.start) = 3

\* A part sleeps three seconds after its third failed attempt.
PartBackoffWitness ==
    \E n \in 1..MaxParts :
        up.part[n].pc = "sleep" /\ up.part[n].sleep = 3 /\ up.part[n].retry = 2

\* The fourth attempt of a range failed: the stream ended without a sleep.
FourthFailureWitness ==
    dl.pc = "end" /\ dl.start < dl.length /\ RangeTries(dl.start) = 4 /\ dl.sleep = 0

\* C31: the metadata request, the single PUT, the initiate POST and the
\* complete POST are each sent at most once per operation and their failure
\* ends the operation with nothing sent after it; a range is requested at
\* most 4 times and a part PUT in flight is at most the 4th of its part.
OnlyRangesAndPartsRepeat ==
    /\ dl.heads <= 1
    /\ up.count.put <= 1 /\ up.count.initiate <= 1 /\ up.count.complete <= 1
    /\ dl.pc = "err" => dl.requests = << >> /\ dl.out = << >>
    /\ up.pc = "err" /\ up.cause = "put" => up.sent = {"put"} /\ up.object = None
    /\ up.pc = "err" /\ up.cause = "initiate" =>
           up.sent = {"initiate"} /\ up.spawned = 0 /\ up.read = 0
    /\ up.pc = "err" /\ up.cause = "complete" => up.count.complete = 1 /\ up.object = None
    /\ \A k \in 1..Len(dl.requests) : RangeTries(dl.requests[k][1]) <= MaxRetry + 1
    /\ \A n \in 1..MaxParts : up.part[n].retry <= MaxRetry

\* A part failed four times, which ended the upload, and nothing but the one
\* initiate and part requests was sent.
OnlyRangesAndPartsRepeatWitness ==
    /\ up.pc = "err" /\ up.cause = "part"
    /\ \E n \in 1..MaxParts : up.part[n].pc = "err" /\ up.part[n].retry = MaxRetry
    /\ up.count.initiate = 1 /\ up.count.complete = 0

\* head_object failed after its request: no range was requested.
HeadFailedWitness ==
    dl.pc = "err" /\ dl.heads = 1 /\ dl.requests = << >>

\* The complete request failed: it was sent once and the upload failed.
CompleteFailedWitness ==
    up.pc = "err" /\ up.cause = "complete" /\ up.count.complete = 1

\* C32: every part of a multipart upload is non-empty and at most the part
\* size long, every part but the highest-numbered one is exactly the part
\* size, and part n holds the body's bytes from offset (n-1) * part size on.
PartsCutInOrder ==
    \A n \in 1..up.spawned :
        LET b == up.part[n].body
        IN /\ Len(b) \in 1..PartSize
           /\ n < up.spawned => Len(b) = PartSize
           /\ b = [k \in 1..Len(b) |-> (n - 1) * PartSize + k - 1]

\* A body of two parts and one byte was read to its end: the third part is
\* the one byte left in the buffer.
PartsCutInOrderWitness ==
    /\ up.pc = "join"
    /\ up.length = 2 * PartSize + 1
    /\ up.spawned = 3
    /\ Len(up.part[3].body) = 1

\* A body of a whole number of parts has a last part of the full size.
FullLastPartWitness ==
    up.pc = "join" /\ up.length = 2 * PartSize /\ up.spawned = 2
        /\ Len(up.part[2].body) = PartSize

\* No reasoning chunk comes after a content chunk.
ReasoningFirst(chunks) ==
    \A i, j \in 1..Len(chunks) :
        i < j => ~(chunks[i].content.some /\ chunks[j].reasoning_content.some)

\* Whether a completion object holds the stream: the reasoning and the
\* content texts in order (no content member only if no content came) and the
\* last usage, or null.
HoldsStream(completion, chunks) ==
    /\ Cardinality(Keyed(completion, "reasoning_content")) = 1
    /\ Field(completion, "reasoning_content") = JStr(Concat(chunks, "reasoning_content"))
    /\ Cardinality(Keyed(completion, "content")) <= 1
    /\ IF Keyed(completion, "content") = {} THEN Concat(chunks, "content") = << >>
       ELSE Field(completion, "content") = JStr(Concat(chunks, "content"))
    /\ Cardinality(Keyed(completion, "usage")) = 1
    /\ Field(completion, "usage") = SerOpt(LastUsage(chunks))

\* C33: the record stored for a stream whose reasoning chunks precede its
\* content chunks parses to a task whose completion holds the reasoning
\* texts, the content texts and the last usage of the stream.
StreamedRecordParses ==
    enc.pc = "loaded" /\ ReasoningFirst(enc.chunks) =>
        LET json == Decompress(enc.value)
        IN /\ enc.loaded = "task"
           /\ ParseOk(json)
           /\ FromJson(json).completion.some
           /\ HoldsStream(FromJson(json).completion.v, enc.chunks)

\* The text of the stored record without the null completion member that
\* the serialized task brings along.
WithoutStub(json) ==
    SelectSeq(json, LAMBDA m : ~(m.k = "completion" /\ m.v.tag = "null"))

\* What the encoder does achieve: but for the stub member, the record of
\* such a stream parses to a task whose completion holds the stream.
StreamedRecordHoldsStream ==
    enc.pc = "loaded" /\ ReasoningFirst(enc.chunks) =>
        LET json == WithoutStub(Decompress(enc.value))
        IN /\ ParseOk(json)
           /\ FromJson(json).completion.some
           /\ HoldsStream(FromJson(json).completion.v, enc.chunks)

\* A stream of two reasoning chunks, then two content chunks with the usage
\* on the last, was stored and its load failed.
StreamedRecordWitness ==
    /\ enc.pc = "loaded"
    /\ enc.chunks = << Chunk(Some("r1"), None, None), Chunk(Some("r2"), Some("c1"), None),
                       Chunk(None, Some("c2"), Some("usage")) >>
    /\ enc.loaded = "err"

\* The completion object at the end of the stored record.
StoredCompletion ==
    LET json == Decompress(enc.value) IN json[Len(json)].v.o

\* C37: the completion of every record the streaming path stored has all of
\* reasoning_content, content and usage.
CompletionHasAllFields ==
    enc.pc \in {"stored", "loaded"} =>
        \A k \in {"reasoning_content", "content", "usage"} :
            Cardinality(Keyed(StoredCompletion, k)) = 1

\* What does hold: reasoning_content and usage are always there, content
\* exactly when the stream had a content chunk.
CompletionFieldsByStream ==
    enc.pc \in {"stored", "loaded"} =>
        /\ Cardinality(Keyed(StoredCompletion, "reasoning_content")) = 1
        /\ Cardinality(Keyed(StoredCompletion, "usage")) = 1
        /\ Cardinality(Keyed(StoredCompletion, "content")) =
               IF \E n \in 1..Len(enc.chunks) : enc.chunks[n].content.some THEN 1 ELSE 0

\* The record of a stream without any chunk has no content member.
EmptyStreamWitness ==
    /\ enc.pc = "stored" /\ enc.chunks = << >>
    /\ Keyed(StoredCompletion, "content") = {}

\* The AdditionalHeaders clause of a request, as a set of names.
ClauseNames(request) ==
    LET clause == request.headers["authorization"].clause
    IN IF clause = None THEN {} ELSE {clause.v[i] : i \in 1..Len(clause.v)}

\* The names of a list ascend, none twice.
Ascending(names) == \A i, j \in 1..Len(names) : i < j => Rank(names[i]) < Rank(names[j])

\* C34: the Authorization value has an AdditionalHeaders clause exactly when
\* the caller passed a header; the clause lists the lowercased names of the
\* caller's headers in ascending order, and none of Host, Date, x-oss-date,
\* x-oss-content-sha256 nor any other header sign_v4 signs anyway.
ClauseExcludesAlwaysSigned ==
    \A i \in 1..Len(sig.sent) :
        LET request == sig.sent[i]
            clause == request.headers["authorization"].clause
        IN /\ (clause # None) <=> (request.caller # {})
           /\ ClauseNames(request) = {Lower(n) : n \in request.caller}
           /\ clause # None => Ascending(clause.v)
           /\ \A k \in ClauseNames(request) :
                  /\ k \notin {"host", "date", "x-oss-date", "x-oss-content-sha256"}
                  /\ ~IsSigned(k, << >>)

\* What does hold: the clause is there exactly when the caller passed a
\* header, lists the lowercased names of the caller's headers in ascending
\* order, and none of the headers request inserts itself.
ClauseListsCallerHeaders ==
    \A i \in 1..Len(sig.sent) :
        LET request == sig.sent[i]
            clause == request.headers["authorization"].clause
        IN /\ (clause # None) <=> (request.caller # {})
           /\ ClauseNames(request) = {Lower(n) : n \in request.caller}
           /\ clause # None => Ascending(clause.v)
           /\ ClauseNames(request) \cap {"host", "date", "x-oss-date", "x-oss-content-sha256"} = {}

\* put_object's request was made: Content-Type and Content-Disposition are
\* the caller's headers, and the clause names content-type.
ContentTypeInClauseWitness ==
    \E i \in 1..Len(sig.sent) :
        /\ sig.sent[i].method = "PUT"
        /\ sig.sent[i].caller = {"Content-Type", "Content-Disposition"}
        /\ sig.sent[i].headers["authorization"].clause
               = Some(<< "content-disposition", "content-type" >>)

\* A request without caller's headers was made: no clause.
NoClauseWitness ==
    \E i \in 1..Len(sig.sent) :
        /\ sig.sent[i].caller = {}
        /\ sig.sent[i].headers["authorization"].clause = None

\* A submit call reaches get_or_init and returns.
SubmitReturns == \E i \in TaskIds : spc[i] = "acquire" /\ spc'[i] = "ok"

\* The steps of the semaphore: it is made by a submit and stays; a worker
\* that starts takes one permit, and a permit comes back only with the end
\* of a worker.
PermitStep ==
    /\ sem.init => sem'.init
    /\ (~sem.init /\ sem'.init) => SubmitReturns
    /\ \A w \in TaskIds :
          (worker[w].pc = "none" /\ worker'[w].pc # "none")
              => sem'.permits = GetOrInit(sem).permits - 1
    /\ (sem.init /\ sem'.permits > sem.permits)
          => /\ sem'.permits = sem.permits + 1
             /\ \E w \in TaskIds : worker[w].pc = "break" /\ worker'[w].pc = "none"

\* C35: once the first submit has made the semaphore, its available permits
\* plus the live workers are num_workers in every reachable state (before,
\* there is no worker); the semaphore is made once, each worker that starts
\* takes one permit, and a permit is returned only when its worker ends.
PermitsConserved ==
    /\ [](IF sem.init THEN sem.permits + Cardinality(LiveWorkers) = NumWorkers
                      ELSE LiveWorkers = {} /\ sem.permits = 0)
    /\ [][PermitStep]_vars

\* Every submit has returned, ids were popped, and every worker has ended
\* and given its permit back.
PermitsConservedWitness ==
    /\ sem.init
    /\ \A i \in TaskIds : spc[i] = "ok"
    /\ popped # << >>
    /\ LiveWorkers = {}
    /\ sem.permits = NumWorkers

\* No submit call is between its first write and its return.
NoSubmitInProgress == \A i \in TaskIds : spc[i] \in {"idle", "ok", "err"}

\* Workers inside the loop that will call consume again.
PoppingWorkers ==
    {w \in TaskIds : worker[w].pc \in {"consume", "get", "execute", "model", "persist"}}

\* C36: whenever no submit is in progress and the pending queue is not
\* empty, some worker will pop again: the queue is never left non-empty with
\* every worker gone or past its last consume.
QueueNeverStranded ==
    (NoSubmitInProgress /\ queue # << >>) => PoppingWorkers # {}

\* An id is queued, its submit has returned without a worker of its own, and
\* every worker has ended.
StrandedWitness ==
    /\ NoSubmitInProgress
    /\ LiveWorkers = {}
    /\ \E i \in TaskIds : spc[i] = "ok" /\ i \in Range(queue) /\ hist[i].pops = 0

====
